---- MODULE Spec2Model ----
(***************************************************************************)
(* Model of the sleep diary core (src/src/Standard/engine.js): the         *)
(* DiaryStandard constructor's derivation pass and its analytics.          *)
(*                                                                         *)
(* Representation.  A record is a TLA+ record whose DOMAIN is the set of   *)
(* its own properties (hasOwnProperty(f) is f \in DOMAIN r); a property    *)
(* whose value is undefined is represented as absent.  Times are in hours. *)
(* A JavaScript number that may be undefined or NaN is a sequence: <<>>    *)
(* for undefined/NaN and <<n>> for the number n.                           *)
(***************************************************************************)
EXTENDS Integers, Sequences, FiniteSets, TLC

VARIABLES
    input,        \* file.contents.records, as handed to the constructor
    settings_in,  \* file.contents.settings (0 stands for an absent/falsy value)
    pc,           \* "new" before the constructor ran, "constructed" after
    records,      \* this.records
    settings,     \* this.settings
    order,        \* history: records[i] was derived from input[order[i]]
    scan,         \* history: scan[i] = day_start/day_number before record i
    rederived,    \* records of a DiaryStandard built from this one's output
    calls,        \* the number of analytics calls made so far
    call,         \* the analytics call made last, with its arguments
    result        \* what that call returned

vars == <<input, settings_in, pc, records, settings, order, scan, rederived,
          calls, call, result>>

(***************************************************************************)
(* Bounds of the model                                                     *)
(***************************************************************************)
MaxRecords == 3
MaxExplicitRecords == 2

(***************************************************************************)
(* JavaScript values                                                       *)
(***************************************************************************)
NaN == <<>>

Num(n) == <<n>>

Get(r, f) == IF f \in DOMAIN r THEN <<r[f]>> ELSE NaN

Put(r, f, v) == [g \in DOMAIN r \cup {f} |-> IF g = f THEN v ELSE r[g]]

Minus(x, y) == IF x = NaN \/ y = NaN THEN NaN ELSE <<x[1] - y[1]>>

Plus(x, y) == IF x = NaN \/ y = NaN THEN NaN ELSE <<x[1] + y[1]>>

Gt(x, y) == x # NaN /\ y # NaN /\ x[1] > y[1]

Lt(x, y) == x # NaN /\ y # NaN /\ x[1] < y[1]

Truthy(x) == x # NaN /\ x[1] # 0

\* r[f] is truthy, for a boolean property f
IsTrue(r, f) == f \in DOMAIN r /\ r[f] = TRUE

(***************************************************************************)
(* records.sort( (a,b) => (a.start - b.start) || (a.end - b.end) )         *)
(***************************************************************************)
compare_records(a, b) ==
    LET d == Minus(Get(a, "start"), Get(b, "start"))
    IN  IF Truthy(d) THEN d ELSE Minus(Get(a, "end"), Get(b, "end"))

\* Array.prototype.sort reads a NaN returned by the comparator as +0
SortCompare(a, b) ==
    LET v == compare_records(a, b) IN IF v = NaN THEN 0 ELSE v[1]

\* ECMAScript's "consistent comparison function for a set of values"
ConsistentComparator(s) ==
    \A i, j, k \in DOMAIN s :
        /\ SortCompare(s[i], s[i]) = 0
        /\ (SortCompare(s[i], s[j]) = 0 => SortCompare(s[j], s[i]) = 0)
        /\ (SortCompare(s[i], s[j]) = 0 /\ SortCompare(s[j], s[k]) = 0
              => SortCompare(s[i], s[k]) = 0)
        /\ (SortCompare(s[i], s[j]) < 0 /\ SortCompare(s[j], s[k]) < 0
              => SortCompare(s[i], s[k]) < 0)
        /\ (SortCompare(s[i], s[j]) > 0 /\ SortCompare(s[j], s[k]) > 0
              => SortCompare(s[i], s[k]) > 0)

IndexPermutations(n) ==
    {p \in [1..n -> 1..n] : \A i, j \in 1..n : i # j => p[i] # p[j]}

\* The orders Array.prototype.sort may leave: the stable sorted order when
\* the comparator is consistent for the elements, and an
\* implementation-defined order (any permutation) when it is not.
SortOutcomes(s) ==
    IF ConsistentComparator(s)
    THEN {p \in IndexPermutations(Len(s)) :
            \A i, j \in 1..Len(s) : i < j =>
                \/ SortCompare(s[p[i]], s[p[j]]) < 0
                \/ SortCompare(s[p[i]], s[p[j]]) = 0 /\ p[i] < p[j]}
    ELSE IndexPermutations(Len(s))

(***************************************************************************)
(* Settings                                                                *)
(***************************************************************************)
DefaultMinimumDayDuration == 16

minimum_day_duration(s) ==
    IF s.minimum_day_duration # 0 THEN s.minimum_day_duration
    ELSE DefaultMinimumDayDuration

maximum_day_duration(s) ==
    IF s.maximum_day_duration # 0 THEN s.maximum_day_duration
    ELSE minimum_day_duration(s) * 2

MakeSettings(s) ==
    [minimum_day_duration |-> minimum_day_duration(s),
     maximum_day_duration |-> maximum_day_duration(s)]

(***************************************************************************)
(* The derivation scan (records.forEach in the constructor)                *)
(***************************************************************************)
InitialScan ==
    [out |-> <<>>,
     pre |-> <<>>,
     day_start |-> Num(0),
     day_number |-> 0,
     prev |-> [status |-> "", day_number |-> -1],
     sleep_wake_record |-> 0,
     day_sleeps |-> <<>>]

DeriveDuration(r) ==
    IF "duration" \in DOMAIN r THEN r
    ELSE LET d == Minus(Get(r, "end"), Get(r, "start"))
         IN  IF d = NaN THEN r ELSE Put(r, "duration", d[1])

\* mutant: the status not looked at
DeriveStartOfNewDayAnyStatus(r, day_start, min) ==
    IF "start_of_new_day" \in DOMAIN r THEN r
    ELSE Put(r, "start_of_new_day",
             Gt(Get(r, "start"), Plus(day_start, Num(min))))

DeriveStartOfNewDay(r, day_start, min) ==
    IF "start_of_new_day" \in DOMAIN r THEN r
    ELSE Put(r, "start_of_new_day",
             r.status = "asleep" /\ Gt(Get(r, "start"), Plus(day_start, Num(min))))

\* mutant: the two branches swapped
DayIncrementSwapped(r, day_start, max) ==
    IF Gt(Get(r, "start"), Plus(day_start, Num(max))) THEN 1 ELSE 2

DayIncrement(r, day_start, max) ==
    IF Gt(Get(r, "start"), Plus(day_start, Num(max))) THEN 2 ELSE 1

HasExplicitDayNumber(r) == "day_number" \in DOMAIN r

\* mutant: day_number = 1 (or 2) where the code has day_number += 1 (or 2)
NextDayNumberAssigned(r, day_start, day_number, max) ==
    IF HasExplicitDayNumber(r) THEN r.day_number
    ELSE IF r.start_of_new_day THEN DayIncrement(r, day_start, max)
    ELSE day_number

NextDayNumber(r, day_start, day_number, max) ==
    IF HasExplicitDayNumber(r) THEN r.day_number
    ELSE IF r.start_of_new_day THEN day_number + DayIncrement(r, day_start, max)
    ELSE day_number

\* mutant: the comparison negated
MissingRecordAfterNegated(status, previous_status) == status # previous_status

MissingRecordAfter(status, previous_status) == status = previous_status

\* mutant: keeps the shortest sleep of the day
IsShorterSleep(best, r) == Gt(best, Get(r, "duration"))

\* mutant: a later sleep of the same duration replaces the tracked one
IsNotShorterSleep(best, r) == ~Gt(best, Get(r, "duration")) /\ "duration" \in DOMAIN r

IsLongerSleep(best, r) == Lt(best, Get(r, "duration"))

\* One iteration of records.forEach( r => ... ) on the i-th sorted record
DeriveStep(st, r0, i, min, max) ==
    LET r1 == DeriveDuration(r0)
        ds1 == IF "start_of_new_day" \in DOMAIN r1 /\ r1.start_of_new_day
               THEN Get(r1, "start") ELSE st.day_start
        r2 == DeriveStartOfNewDay(r1, ds1, min)
        dn == NextDayNumber(r2, ds1, st.day_number, max)
        ds2 == IF ~HasExplicitDayNumber(r2) /\ r2.start_of_new_day
               THEN Get(r2, "start") ELSE ds1
        r3 == Put(r2, "day_number", dn)
        sw == r3.status \in {"awake", "asleep"}
        k == st.sleep_wake_record
        mark == sw /\ k # 0 /\ "missing_record_after" \notin DOMAIN st.out[k]
        out1 == IF mark
                THEN [st.out EXCEPT ![k] = Put(@, "missing_record_after",
                         MissingRecordAfter(r3.status, st.out[k].status))]
                ELSE st.out
        prev1 == IF sw /\ k = 0 /\ "missing_record_after" \notin DOMAIN st.prev
                 THEN Put(st.prev, "missing_record_after",
                          MissingRecordAfter(r3.status, st.prev.status))
                 ELSE st.prev
        best == IF dn \in DOMAIN st.day_sleeps
                THEN Get(out1[st.day_sleeps[dn]], "duration")
                ELSE NaN
        better == r3.status = "asleep" /\
                  IF dn \in DOMAIN st.day_sleeps THEN IsLongerSleep(best, r3)
                  ELSE "duration" \in DOMAIN r3
    IN  [out |-> Append(out1, r3),
         pre |-> Append(st.pre, [day_start |-> st.day_start,
                                 day_number |-> st.day_number]),
         day_start |-> ds2,
         day_number |-> dn,
         prev |-> prev1,
         sleep_wake_record |-> IF sw THEN i ELSE k,
         day_sleeps |-> IF better
                        THEN [d \in DOMAIN st.day_sleeps \cup {dn} |->
                                 IF d = dn THEN i ELSE st.day_sleeps[d]]
                        ELSE st.day_sleeps]

RECURSIVE DeriveScan(_, _, _, _, _)
\* the rest of the scan, i records done.  The test is always true: it has
\* the state after record i evaluated before the scan goes on, which keeps
\* the evaluation of a long list shallow.
DeriveScanFrom(st, s, i, min, max) ==
    IF Len(st.out) = i THEN DeriveScan(st, s, i + 1, min, max)
    ELSE st

DeriveScan(st, s, i, min, max) ==
    IF i > Len(s) THEN st
    ELSE DeriveScanFrom(DeriveStep(st, s[i], i, min, max), s, i, min, max)

\* mutant: no hasOwnProperty guard
MarkPrimarySleepAlways(r) == Put(r, "is_primary_sleep", TRUE)

MarkPrimarySleep(r) ==
    IF "is_primary_sleep" \in DOMAIN r THEN r ELSE Put(r, "is_primary_sleep", TRUE)

\* day_sleeps.forEach( r => ... ): the final pass
MarkPrimarySleeps(st) ==
    LET chosen == {st.day_sleeps[d] : d \in DOMAIN st.day_sleeps}
    IN  [i \in DOMAIN st.out |->
            IF i \in chosen THEN MarkPrimarySleep(st.out[i]) ELSE st.out[i]]

\* The constructor on the records in the order p the sort left them in
Derive(s, p, cfg) ==
    LET sorted == [i \in DOMAIN s |-> s[p[i]]]
        st == DeriveScan(InitialScan, sorted, 1,
                         cfg.minimum_day_duration, cfg.maximum_day_duration)
    IN  [records |-> MarkPrimarySleeps(st), pre |-> st.pre]

(***************************************************************************)
(* DiaryStandard.summarise                                                 *)
(*                                                                         *)
(* A list of [duration, timestamp] pairs is a sequence whose elements are  *)
(* <<>> for a hole of the sparse array and <<v, t>> for a pair, v and t    *)
(* being numbers as above.  A fraction a/b (b > 0) is <<a, b>>; the        *)
(* standard deviations are kept squared (the variance as a fraction), so   *)
(* they are compared by comparing the fractions.                           *)
(***************************************************************************)
NoCall == [name |-> "none"]

Null == [kind |-> "null"]

\* Array.prototype.reduce of an empty array with no initial value
TypeError == [kind |-> "TypeError"]

RollingWindow == 14

RECURSIVE Sum(_)
Sum(s) == IF s = <<>> THEN 0 ELSE s[1] + Sum(Tail(s))

RECURSIVE SumOfSquares(_)
SumOfSquares(s) == IF s = <<>> THEN 0 ELSE s[1] * s[1] + SumOfSquares(Tail(s))

RECURSIVE Insert(_, _)
Insert(x, s) ==
    IF s = <<>> THEN <<x>>
    ELSE IF x - s[1] < 0 THEN <<x>> \o s
    ELSE <<s[1]>> \o Insert(x, Tail(s))

\* defined_durations.sort( (a,b) => a-b )
RECURSIVE SortNumbers(_)
SortNumbers(s) ==
    IF s = <<>> THEN <<>> ELSE Insert(s[Len(s)], SortNumbers(SubSeq(s, 1, Len(s) - 1)))

\* Array.prototype.slice(from, to) on 0-based indices
Slice(s, from, to) == SubSeq(s, from + 1, IF to > Len(s) THEN Len(s) ELSE to)

\* mutant: the lower quartile index rounded down
RoundQuarterDown(n) == n \div 4

\* Math.round(n * 0.25) and Math.round(n * 0.75)
RoundQuarter(n) == (n + 2) \div 4

\* mutant: the upper quartile index rounded down
RoundThreeQuartersDown(n) == (3 * n) \div 4

RoundThreeQuarters(n) == (3 * n + 2) \div 4

RECURSIVE DefinedValues(_)
DefinedValues(pairs) ==
    IF pairs = <<>> THEN <<>>
    ELSE (IF pairs[1] = <<>> \/ pairs[1][1] = NaN THEN <<>> ELSE pairs[1][1])
         \o DefinedValues(Tail(pairs))

Mean(s) == <<Sum(s), Len(s)>>

\* mutant: the lower of the two middle values
MedianLower(sorted_durations) ==
    sorted_durations[((Len(sorted_durations) - 1) \div 2) + 1]

\* sorted_durations[Math.floor(sorted_durations.length/2)]
Median(sorted_durations) == sorted_durations[(Len(sorted_durations) \div 2) + 1]

\* sum of (r - mean)^2 over s, divided by Len(s), for mean = Sum(s)/Len(s)
Variance(s) == <<Len(s) * SumOfSquares(s) - Sum(s) * Sum(s), Len(s) * Len(s)>>

\* mutant: the window one entry longer and read one entry earlier
RollingAverageFifteen(pairs, n, rolling_average_max) ==
    LET from == IF n - RollingWindow > 0 THEN n - RollingWindow ELSE 0
        rolling_window == DefinedValues(Slice(pairs, from, n + 1))
    IN  IF n < RollingWindow - 1 \/ rolling_window = <<>> THEN NaN
        ELSE Mean(rolling_window)

\* mutant: extremes[0] <= extremes[1] where the code has <
RollingAverageTieAdds(pairs, n, rolling_average_max) ==
    LET from == IF n - (RollingWindow - 1) > 0 THEN n - (RollingWindow - 1) ELSE 0
        rolling_window == DefinedValues(Slice(pairs, from, n + 1))
        low == Cardinality({i \in DOMAIN rolling_window :
                                rolling_window[i] * 4 < rolling_average_max})
        high == Cardinality({i \in DOMAIN rolling_window :
                                rolling_window[i] * 4 > rolling_average_max * 3})
    IN  IF n < RollingWindow \/ rolling_window = <<>> THEN NaN
        ELSE IF rolling_average_max # 0
        THEN <<Sum(rolling_window)
                 + (IF low <= high THEN low * rolling_average_max
                    ELSE high * (-rolling_average_max)),
               Len(rolling_window)>>
        ELSE Mean(rolling_window)

\* rolling_average[n] (n counted from 0)
RollingAverage(pairs, n, rolling_average_max) ==
    LET from == IF n - (RollingWindow - 1) > 0 THEN n - (RollingWindow - 1) ELSE 0
        rolling_window == DefinedValues(Slice(pairs, from, n + 1))
        low == Cardinality({i \in DOMAIN rolling_window :
                                rolling_window[i] * 4 < rolling_average_max})
        high == Cardinality({i \in DOMAIN rolling_window :
                                rolling_window[i] * 4 > rolling_average_max * 3})
    IN  IF n < RollingWindow \/ rolling_window = <<>> THEN NaN
        ELSE IF rolling_average_max # 0
        THEN <<Sum(rolling_window)
                 + (IF low < high THEN low * rolling_average_max
                    ELSE high * (-rolling_average_max)),
               Len(rolling_window)>>
        ELSE Mean(rolling_window)

\* mutant: the early return left out
NoDataUnchecked(defined_durations) == FALSE

NoData(defined_durations) == Len(defined_durations) = 0

Statistics(pairs, rolling_average_max) ==
    LET defined_durations == DefinedValues(pairs)
        sorted_durations == SortNumbers(defined_durations)
        n == Len(sorted_durations)
        interquartile_durations ==
            Slice(sorted_durations, RoundQuarter(n), RoundThreeQuarters(n))
    IN  IF defined_durations = <<>> \/ interquartile_durations = <<>>
        THEN TypeError
        ELSE [kind |-> "statistics",
              average |-> Mean(defined_durations),
              mean |-> Mean(defined_durations),
              interquartile_mean |-> Mean(interquartile_durations),
              median |-> Median(sorted_durations),
              interquartile_range |->
                  interquartile_durations[Len(interquartile_durations)]
                      - interquartile_durations[1],
              durations |-> [i \in DOMAIN pairs |->
                                IF pairs[i] = <<>> THEN NaN ELSE pairs[i][1]],
              timestamps |-> [i \in DOMAIN pairs |->
                                 IF pairs[i] = <<>> THEN NaN ELSE pairs[i][2]],
              interquartile_durations |-> interquartile_durations,
              rolling_average |-> [i \in DOMAIN pairs |->
                                      RollingAverage(pairs, i - 1, rolling_average_max)],
              standard_deviation |-> Variance(defined_durations),
              interquartile_standard_deviation |-> Variance(interquartile_durations)]

\* static summarise(durations_and_timestamps, rolling_average_max); a
\* rolling_average_max of 0 stands for an absent one
summarise(pairs, rolling_average_max) ==
    IF NoData(DefinedValues(pairs)) THEN Null
    ELSE Statistics(pairs, rolling_average_max)

(***************************************************************************)
(* Analytics on a constructed diary                                        *)
(***************************************************************************)
\* the filter argument: "none" is an absent filter
Filters == {"none", "asleep", "nothing"}

FilterMatches(filter, r) ==
    CASE filter = "none" -> TRUE
      [] filter = "asleep" -> r.status = "asleep"
      [] filter = "nothing" -> FALSE

RECURSIVE FilterRecords(_, _)
FilterRecords(filter, s) ==
    IF s = <<>> THEN <<>>
    ELSE (IF FilterMatches(filter, s[1]) THEN <<s[1]>> ELSE <<>>)
         \o FilterRecords(filter, Tail(s))

\* a || b on numbers
OrElse(a, b) == IF Truthy(a) THEN a ELSE b

\* a % b of JavaScript (the sign of the dividend), b > 0
JSMod(a, b) == IF a >= 0 THEN a % b ELSE -((-a) % b)

summarise_records(filter) ==
    LET rs == FilterRecords(filter, records)
    IN  summarise([i \in DOMAIN rs |->
                      <<Get(rs[i], "duration"),
                        OrElse(Get(rs[i], "start"), Get(rs[i], "end"))>>], 0)

\* starts[day_number] = r.start for the records that start a day; the array
\* as a sequence whose element d + 1 is starts[d]
DayStarts(rs) ==
    LET marks == {i \in DOMAIN rs :
                     rs[i].start_of_new_day /\ rs[i].day_number # 0}
        length == IF marks = {} THEN 0
                  ELSE 1 + CHOOSE d \in {rs[i].day_number : i \in marks} :
                               \A j \in marks : rs[j].day_number <= d
        last(d) == CHOOSE i \in marks :
                       /\ rs[i].day_number = d
                       /\ \A j \in marks : rs[j].day_number = d => j <= i
    IN  [k \in 1..length |->
            IF \E i \in marks : rs[i].day_number = k - 1
            THEN Get(rs[last(k - 1)], "start") ELSE NaN]

\* while ( starts.length && !starts[0] ) starts.shift()
RECURSIVE DropLeadingFalsy(_)
DropLeadingFalsy(starts) ==
    IF starts # <<>> /\ ~Truthy(starts[1]) THEN DropLeadingFalsy(Tail(starts))
    ELSE starts

\* mutant: a missing start replaced by the one before it
DayDurationsAcrossGaps(starts) ==
    LET both == {n \in 2..Len(starts) :
                    Truthy(starts[n]) /\ \E m \in 1..(n - 1) : Truthy(starts[m])}
        before(n) == CHOOSE m \in 1..(n - 1) :
                         Truthy(starts[m])
                         /\ \A k \in 1..(n - 1) : Truthy(starts[k]) => k <= m
        length == IF both = {} THEN 0
                  ELSE (CHOOSE n \in both : \A m \in both : m <= n) - 1
    IN  [k \in 1..length |->
            IF k + 1 \in both
            THEN <<Minus(starts[k + 1], starts[before(k + 1)]), starts[before(k + 1)]>>
            ELSE <<>>]

DayDurations(starts) ==
    LET both == {n \in 2..Len(starts) : Truthy(starts[n]) /\ Truthy(starts[n - 1])}
        length == IF both = {} THEN 0
                  ELSE (CHOOSE n \in both : \A m \in both : m <= n) - 1
    IN  [k \in 1..length |->
            IF k + 1 \in both
            THEN <<Minus(starts[k + 1], starts[k]), starts[k]>> ELSE <<>>]

summarise_days(filter) ==
    summarise(DayDurations(DropLeadingFalsy(DayStarts(FilterRecords(filter, records)))), 0)

SystemTimezone == "Etc/GMT"

Timezones == {"Etc/GMT", "Etc/GMT-1"}

\* a zone with daylight saving time: one hour ahead from DstForward up to
\* DstBack, both changes at 01:00 UTC
DstZone == "Europe/London"

DstForward == 49

DstBack == 121

\* DiaryBase.date(time, tz).offset(), in hours
ZoneOffset(time, tz) ==
    IF tz = "Etc/GMT-1" THEN 1
    ELSE IF tz = DstZone /\ time >= DstForward /\ time < DstBack THEN 1
    ELSE 0

DefaultDayLength == 24

\* the local time of r[key], or NaN when r[key] is falsy
LocalTime(r, key, timezone) ==
    IF ~Truthy(Get(r, key)) THEN NaN
    ELSE LET tz == IF (key \o "_timezone") \in DOMAIN r
                   THEN r[key \o "_timezone"] ELSE timezone
         IN  Num(r[key] + ZoneOffset(r[key], tz))

RECURSIVE PhasePairs(_, _, _, _, _)
PhasePairs(rs, key, timezone, shift, day_length) ==
    IF rs = <<>> THEN <<>>
    ELSE LET time == LocalTime(rs[1], key, timezone)
         IN  (IF IsTrue(rs[1], "is_primary_sleep") /\ time # NaN
              THEN <<<<Num(JSMod(time[1] + shift, day_length)), time>>>>
              ELSE <<>>)
             \o PhasePairs(Tail(rs), key, timezone, shift, day_length)

\* mutant: no % day_length
ShiftFractionUnwrapped(x, half_day_length, day_length) ==
    <<x[1] + half_day_length * x[2], x[2]>>

ShiftFraction(x, half_day_length, day_length) ==
    <<JSMod(x[1] + half_day_length * x[2], day_length * x[2]), x[2]>>

\* mutant: the averages left in the late phase
ShiftLateArraysOnly(late, early, half_day_length, day_length) ==
    IF late = Null THEN Null
    ELSE IF early = Null THEN TypeError
    ELSE [late EXCEPT
            !.durations = early.durations,
            !.interquartile_durations = early.interquartile_durations,
            !.rolling_average = early.rolling_average]

\* mutant: the late rolling_average left in place
ShiftLateOwnRollingAverage(late, early, half_day_length, day_length) ==
    IF late = Null THEN Null
    ELSE IF early = Null THEN TypeError
    ELSE [late EXCEPT
            !.average = ShiftFraction(@, half_day_length, day_length),
            !.mean = ShiftFraction(@, half_day_length, day_length),
            !.interquartile_mean = ShiftFraction(@, half_day_length, day_length),
            !.median = JSMod(@ + half_day_length, day_length),
            !.durations = early.durations,
            !.interquartile_durations = early.interquartile_durations]

\* the late statistics expressed in the early phase
ShiftLate(late, early, half_day_length, day_length) ==
    IF late = Null THEN Null
    ELSE IF early = Null THEN TypeError
    ELSE [late EXCEPT
            !.average = ShiftFraction(@, half_day_length, day_length),
            !.mean = ShiftFraction(@, half_day_length, day_length),
            !.interquartile_mean = ShiftFraction(@, half_day_length, day_length),
            !.median = JSMod(@ + half_day_length, day_length),
            !.durations = early.durations,
            !.interquartile_durations = early.interquartile_durations,
            !.rolling_average = early.rolling_average]

FractionLess(x, y) == x[1] * y[2] < y[1] * x[2]

\* mutant: the comparison reversed
EarlySelectedWhenHigher(early, late) ==
    early # Null /\ late # Null
        /\ FractionLess(late.standard_deviation, early.standard_deviation)

\* (early||{}).standard_deviation < (late||{}).standard_deviation
EarlySelected(early, late) ==
    early # Null /\ late # Null
        /\ FractionLess(early.standard_deviation, late.standard_deviation)

\* summarise_schedule(filter, day_length, timezone) for key "start" (sleep)
\* or "end" (wake): the two series, the one selected and what is returned
Schedule(filter, day_length, timezone, key) ==
    LET rs == FilterRecords(filter, records)
        half_day_length == day_length \div 2
        early == summarise(PhasePairs(rs, key, timezone, 0, day_length), day_length)
        late == summarise(PhasePairs(rs, key, timezone, half_day_length, day_length),
                          day_length)
        shifted == ShiftLate(late, early, half_day_length, day_length)
    IN  [early |-> early, late |-> late,
         selected |-> IF EarlySelected(early, shifted) THEN "early" ELSE "late",
         returned |-> IF EarlySelected(early, shifted) THEN early ELSE shifted]

(***************************************************************************)
(* Inputs                                                                  *)
(***************************************************************************)
Statuses == {"asleep", "awake", "snack"}

StartTimes == {20, 40, 60}

BaseRecords ==
    {[status |-> "asleep", start |-> s, end |-> s + d] :
        s \in StartTimes, d \in {3, 6}}
    \cup {[status |-> "awake", start |-> s, end |-> s + 3] : s \in StartTimes}
    \cup {[status |-> "snack", start |-> 20, end |-> 23],
          [status |-> "asleep", start |-> 20],
          [status |-> "asleep", start |-> 40],
          [status |-> "asleep", end |-> 5],
          [status |-> "awake", end |-> 45],
          [status |-> "awake"]}

ExplicitFields ==
    {<<"day_number", 0>>, <<"day_number", 3>>,
     <<"start_of_new_day", TRUE>>, <<"start_of_new_day", FALSE>>,
     <<"is_primary_sleep", TRUE>>, <<"is_primary_sleep", FALSE>>,
     <<"missing_record_after", TRUE>>, <<"missing_record_after", FALSE>>,
     <<"duration", 9>>}

ExplicitRecords ==
    LET base == {[status |-> "asleep", start |-> 20, end |-> 23],
                 [status |-> "asleep", start |-> 40, end |-> 43],
                 [status |-> "awake", start |-> 40, end |-> 43]}
        one == {Put(b, e[1], e[2]) : b \in base, e \in ExplicitFields}
        two == {Put(b, e[1], e[2]) : b \in one, e \in ExplicitFields}
    IN  base \cup one \cup two

SeqsUpTo(S, n) == UNION {[1..m -> S] : m \in 0..n}

Inputs == SeqsUpTo(BaseRecords, MaxRecords)
          \cup SeqsUpTo(ExplicitRecords, MaxExplicitRecords)

SettingsInputs ==
    {[minimum_day_duration |-> 0, maximum_day_duration |-> 0],
     [minimum_day_duration |-> 30, maximum_day_duration |-> 0]}

(***************************************************************************)
(* The state machine                                                       *)
(***************************************************************************)
Init ==
    /\ input \in Inputs
    /\ settings_in \in SettingsInputs
    /\ pc = "new"
    /\ records = <<>>
    /\ settings = MakeSettings(settings_in)
    /\ order = <<>>
    /\ scan = <<>>
    /\ rederived = <<>>
    /\ calls = 0
    /\ call = NoCall
    /\ result = NoCall

\* new DiaryStandard({ records: input, settings: settings_in })
Construct ==
    /\ pc = "new"
    /\ \E p \in SortOutcomes(input) :
          LET d == Derive(input, p, MakeSettings(settings_in))
          IN  /\ records' = d.records
              /\ scan' = d.pre
              /\ order' = p
    /\ settings' = MakeSettings(settings_in)
    /\ pc' = "constructed"
    /\ UNCHANGED <<input, settings_in, rederived, calls, call, result>>

\* new DiaryStandard({ records: diary.records, settings: diary.settings })
Reconstruct ==
    /\ pc = "constructed"
    /\ \E p \in SortOutcomes(records) :
          rederived' = Derive(records, p, MakeSettings(settings)).records
    /\ pc' = "rederived"
    /\ UNCHANGED <<input, settings_in, records, settings, order, scan, calls, call, result>>

Next == Construct \/ Reconstruct

Spec == Init /\ [][Next]_vars

(***************************************************************************)
(* The analytics state machine                                             *)
(***************************************************************************)
MaxSleeps == 3
MaxCalls == 1
MaxPairs == 3

\* one sleep a day, going to bed around midnight, at 6, 12 or 18 o'clock
BedTimes == {-2, -1, 1, 2, 6, 12, 18}

ScheduleRecords(day) ==
    {[status |-> "asleep", start |-> 24 * day + b, end |-> 24 * day + b + 8] :
        b \in BedTimes}
    \cup {[status |-> "asleep", start |-> 24 * day + 1, end |-> 24 * day + 8,
           start_timezone |-> "Etc/GMT-1"],
          [status |-> "asleep", start |-> 24 * day - 1],
          [status |-> "awake", start |-> 24 * day + 9, end |-> 24 * day + 10],
          [status |-> "snack"]}

ScheduleInputs ==
    UNION {{s \in [1..n -> UNION {ScheduleRecords(d) : d \in 1..n}] :
               \A d \in 1..n : s[d] \in ScheduleRecords(d)} : n \in 0..MaxSleeps}

PairValues == {<<>>, <<NaN, Num(5)>>, <<Num(10), Num(5)>>, <<Num(20), NaN>>,
               <<Num(40), Num(7)>>}

InitAnalytics ==
    /\ input \in ScheduleInputs
    /\ settings_in = [minimum_day_duration |-> 0, maximum_day_duration |-> 0]
    /\ pc = "new"
    /\ records = <<>>
    /\ settings = MakeSettings(settings_in)
    /\ order = <<>>
    /\ scan = <<>>
    /\ rederived = <<>>
    /\ calls = 0
    /\ call = NoCall
    /\ result = NoCall

\* DiaryStandard.summarise(pairs, rolling_average_max), called on its own
Summarise ==
    /\ pc = "new"
    /\ input = <<>>
    /\ calls < MaxCalls
    /\ calls' = calls + 1
    /\ \E pairs \in SeqsUpTo(PairValues, MaxPairs), max \in {0, DefaultDayLength} :
          /\ call' = [name |-> "summarise", pairs |-> pairs,
                      rolling_average_max |-> max]
          /\ result' = summarise(pairs, max)
    /\ UNCHANGED <<input, settings_in, pc, records, settings, order, scan, rederived>>

SummariseRecords ==
    /\ pc = "constructed"
    /\ calls < MaxCalls
    /\ calls' = calls + 1
    /\ \E filter \in Filters :
          /\ call' = [name |-> "summarise_records", filter |-> filter]
          /\ result' = summarise_records(filter)
    /\ UNCHANGED <<input, settings_in, pc, records, settings, order, scan, rederived>>

SummariseDays ==
    /\ pc = "constructed"
    /\ calls < MaxCalls
    /\ calls' = calls + 1
    /\ \E filter \in Filters :
          /\ call' = [name |-> "summarise_days", filter |-> filter]
          /\ result' = summarise_days(filter)
    /\ UNCHANGED <<input, settings_in, pc, records, settings, order, scan, rederived>>

\* summarise_schedule(filter, day_length, timezone); a day_length of 0 and a
\* timezone of "" stand for absent arguments
SummariseSchedule ==
    /\ pc = "constructed"
    /\ calls < MaxCalls
    /\ calls' = calls + 1
    /\ \E filter \in Filters, length \in {0, 8}, zone \in {"", "Etc/GMT-1"} :
          LET day_length == IF length # 0 THEN length ELSE DefaultDayLength
              timezone == IF zone # "" THEN zone ELSE SystemTimezone
              sleep == Schedule(filter, day_length, timezone, "start")
              wake == Schedule(filter, day_length, timezone, "end")
          IN  /\ call' = [name |-> "summarise_schedule", filter |-> filter,
                          day_length |-> day_length, timezone |-> timezone,
                          early |-> [sleep |-> sleep.early, wake |-> wake.early],
                          late |-> [sleep |-> sleep.late, wake |-> wake.late],
                          selected |-> [sleep |-> sleep.selected,
                                        wake |-> wake.selected]]
              /\ result' = [kind |-> "schedule", sleep |-> sleep.returned,
                            wake |-> wake.returned]
    /\ UNCHANGED <<input, settings_in, pc, records, settings, order, scan, rederived>>

NextAnalytics ==
    Construct \/ Summarise \/ SummariseRecords \/ SummariseDays \/ SummariseSchedule

SpecAnalytics == InitAnalytics /\ [][NextAnalytics]_vars

(***************************************************************************)
(* summarise_schedule on a diary of one sleep a day, long enough for the   *)
(* rolling average.  The records are given in the order of their starts,   *)
(* which differ, so the constructor's sort leaves them in place.           *)
(***************************************************************************)
MaxDays == 16

\* the hour of going to bed, from midnight
LongBedTimes == {-1, 0, 1, 6, 12}

SchedulePatterns == {<<b, b>> : b \in LongBedTimes} \cup {<<-1, 1>>, <<6, 18>>}

PatternRecord(p, d) ==
    LET b == IF d % 2 = 0 THEN p[1] ELSE p[2]
    IN  [status |-> "asleep", start |-> 24 * d + b, end |-> 24 * d + b + 8]

\* the records that stand out of the pattern on day d
SpecialRecords(d) ==
    {[status |-> "asleep", start |-> 24 * d + 13, end |-> 24 * d + 21],
     [status |-> "asleep", start |-> 24 * d + 1, end |-> 24 * d + 9,
      start_timezone |-> "Etc/GMT-1"],
     [status |-> "awake", start |-> 24 * d + 9, end |-> 24 * d + 10]}

LongScheduleInputs ==
    {[d \in 1..n |-> IF d \in H THEN s[d] ELSE PatternRecord(p, d)] :
        n \in (MaxDays - 1)..MaxDays, p \in SchedulePatterns,
        H \in {{}} \cup {{a, b} : a \in {1, 2, MaxDays}, b \in {2, 3, MaxDays - 1}},
        s \in {[d \in 1..MaxDays |-> CHOOSE r \in SpecialRecords(d) : r.status = x[1]
                                       /\ ("start_timezone" \in DOMAIN r) = x[2]] :
                 x \in {<<"asleep", FALSE>>, <<"asleep", TRUE>>, <<"awake", FALSE>>}}}

Identity(n) == [i \in 1..n |-> i]

InitSchedule ==
    /\ input \in LongScheduleInputs
    /\ settings_in = [minimum_day_duration |-> 0, maximum_day_duration |-> 0]
    /\ pc = "constructed"
    /\ order = Identity(Len(input))
    /\ records = Derive(input, order, MakeSettings(settings_in)).records
    /\ scan = Derive(input, order, MakeSettings(settings_in)).pre
    /\ settings = MakeSettings(settings_in)
    /\ rederived = <<>>
    /\ calls = 0
    /\ call = NoCall
    /\ result = NoCall

NextSchedule == SummariseSchedule

SpecSchedule == InitSchedule /\ [][NextSchedule]_vars

(***************************************************************************)
(* daily_activities(timezone, day_start, day_stride), without segments     *)
(*                                                                         *)
(* A date is its time in hours since the epoch; the zone is the timezone   *)
(* argument throughout.  The days are a function from the day indices that *)
(* were filled to day records.  An absent activity field is NaN.           *)
(***************************************************************************)
Infinity == 1000000

DefaultDayStart == 18

DefaultDayStride == 24

\* DiaryBase.next_dst_change(date, timezone)
next_dst_change(date, timezone) ==
    IF timezone # DstZone THEN Infinity
    ELSE IF date < DstForward THEN DstForward
    ELSE IF date < DstBack THEN DstBack
    ELSE Infinity

\* date.startOfDay(): the instant of the local midnight before date
StartOfDay(date, timezone) ==
    LET local == date + ZoneOffset(date, timezone)
        midnight == local - (local % 24)
        guess == midnight - ZoneOffset(date, timezone)
    IN  IF ZoneOffset(guess, timezone) = ZoneOffset(date, timezone) THEN guess
        ELSE midnight - ZoneOffset(guess, timezone)

\* (a.start || a.end)
StartOrEnd(r) == IF Truthy(Get(r, "start")) THEN Get(r, "start") ELSE Get(r, "end")

\* (a,b) => (a.start||a.end) - (b.start||b.end), a NaN read as +0 by sort
compare_activity_records(a, b) ==
    LET v == Minus(StartOrEnd(a), StartOrEnd(b)) IN IF v = NaN THEN 0 ELSE v[1]

ConsistentActivityComparator(s) ==
    \A i, j, k \in DOMAIN s :
        /\ compare_activity_records(s[i], s[i]) = 0
        /\ (compare_activity_records(s[i], s[j]) = 0
              => compare_activity_records(s[j], s[i]) = 0)
        /\ (compare_activity_records(s[i], s[j]) = 0
             /\ compare_activity_records(s[j], s[k]) = 0
              => compare_activity_records(s[i], s[k]) = 0)
        /\ (compare_activity_records(s[i], s[j]) < 0
             /\ compare_activity_records(s[j], s[k]) < 0
              => compare_activity_records(s[i], s[k]) < 0)
        /\ (compare_activity_records(s[i], s[j]) > 0
             /\ compare_activity_records(s[j], s[k]) > 0
              => compare_activity_records(s[i], s[k]) > 0)

\* the orders this.records.sort(...) of daily_activities may leave, as for
\* SortOutcomes
ActivitySortOutcomes(s) ==
    IF ConsistentActivityComparator(s)
    THEN {p \in IndexPermutations(Len(s)) :
            \A i, j \in 1..Len(s) : i < j =>
                \/ compare_activity_records(s[p[i]], s[p[j]]) < 0
                \/ compare_activity_records(s[p[i]], s[p[j]]) = 0 /\ p[i] < p[j]}
    ELSE IndexPermutations(Len(s))

\* tomorrow.add((today.offset() - tomorrow.offset()) * 60 * 1000)
OffsetTomorrow(today, tomorrow, timezone) ==
    tomorrow + (ZoneOffset(today, timezone) - ZoneOffset(tomorrow, timezone))

\* the state before the first record: today, tomorrow, next_dst_change, and
\* no current_activities
FirstDay(first, timezone, day_start, day_stride) ==
    LET base_time == first - StartOfDay(first, timezone)
        today == first - ((IF base_time < day_start THEN 24 ELSE 0)
                          + base_time - day_start)
        tomorrow == today + day_stride
        offset_tomorrow == OffsetTomorrow(today, tomorrow, timezone)
    IN  [today |-> today,
         tomorrow |-> IF offset_tomorrow > today THEN offset_tomorrow ELSE tomorrow,
         next_dst_change |-> next_dst_change(first - 1, timezone),
         day_index |-> 0,
         current_activities |-> FALSE,
         days |-> <<>>]

\* the while loop of advance_to
RECURSIVE AdvanceDays(_, _, _, _)
AdvanceDays(st, timestamp, timezone, day_stride) ==
    IF ~(st.tomorrow <= timestamp) THEN st
    ELSE LET today == st.tomorrow
             tomorrow == st.tomorrow + day_stride
             offset_tomorrow == OffsetTomorrow(today, tomorrow, timezone)
             moved == [st EXCEPT !.current_activities = FALSE,
                                 !.day_index = @ + 1,
                                 !.today = today,
                                 !.tomorrow = tomorrow]
         IN  IF tomorrow >= st.next_dst_change
             THEN LET changed ==
                          [moved EXCEPT !.next_dst_change =
                                            next_dst_change(today, timezone)]
                  IN  IF today < offset_tomorrow
                      THEN IF tomorrow > timestamp
                           THEN [changed EXCEPT !.tomorrow = offset_tomorrow]
                           ELSE AdvanceDays([changed EXCEPT !.tomorrow = offset_tomorrow],
                                            timestamp, timezone, day_stride)
                      ELSE AdvanceDays(changed, timestamp, timezone, day_stride)
             ELSE AdvanceDays(moved, timestamp, timezone, day_stride)

\* mutant: the running day index not used, days appended to the list
advance_toAppending(st, timestamp, timezone, day_stride) ==
    LET at == AdvanceDays(st, timestamp, timezone, day_stride)
        day == [start |-> at.today,
                end |-> at.tomorrow,
                duration |-> at.tomorrow - at.today,
                activities |-> <<>>]
        next == IF at.days = <<>> THEN 0
                ELSE 1 + CHOOSE k \in DOMAIN at.days : \A j \in DOMAIN at.days : j <= k
    IN  IF at.current_activities THEN at
        ELSE [at EXCEPT !.current_activities = TRUE,
                        !.day_index = next,
                        !.days = [k \in DOMAIN at.days \cup {next} |->
                                     IF k = next THEN day ELSE at.days[k]]]

\* advance_to(timestamp)
advance_to(st, timestamp, timezone, day_stride) ==
    LET at == AdvanceDays(st, timestamp, timezone, day_stride)
        day == [start |-> at.today,
                end |-> at.tomorrow,
                duration |-> at.tomorrow - at.today,
                activities |-> <<>>]
    IN  IF at.current_activities THEN at
        ELSE [at EXCEPT !.current_activities = TRUE,
                        !.days = [k \in DOMAIN at.days \cup {at.day_index} |->
                                     IF k = at.day_index THEN day ELSE at.days[k]]]

\* activity[key] = (activity[key] - start) / duration, for a truthy value
ActivityOffset(value, denominator, day) ==
    IF value = NaN \/ value[1] = 0 THEN NaN
    ELSE <<value[1] - denominator * day.start, denominator * day.duration>>

\* build_activity(record, activity), the record named by its place in the store
build_activity(st, record, record_index, type, start, end) ==
    LET first == IF Truthy(start) THEN start ELSE end
        second == IF Truthy(end) THEN end ELSE start
        time == Plus(first, second)
        last == CHOOSE k \in DOMAIN st.days : \A j \in DOMAIN st.days : j <= k
        day == st.days[last]
    IN  [type |-> type, start |-> start, end |-> end,
         time |-> IF time = NaN THEN NaN ELSE <<time[1], 2>>,
         record |-> record, index |-> record_index,
         offset_start |-> ActivityOffset(start, 1, day),
         offset_end |-> ActivityOffset(end, 1, day),
         offset_time |-> ActivityOffset(time, 2, day)]

\* current_activities.push(build_activity(record, activity))
PushActivity(st, record, record_index, type, start, end) ==
    [st EXCEPT !.days[st.day_index].activities =
        Append(@, build_activity(st, record, record_index, type, start, end))]

\* the for (;;) loop of a record that goes beyond the day it starts in
RECURSIVE MiddleDays(_, _, _, _, _, _)
MiddleDays(st, record, record_index, end_timestamp, timezone, day_stride) ==
    LET at == advance_to(st, st.tomorrow, timezone, day_stride)
    IN  IF at.tomorrow >= end_timestamp
        THEN PushActivity(at, record, record_index, "mid-end",
                          Num(at.today), Num(end_timestamp))
        ELSE MiddleDays(PushActivity(at, record, record_index, "mid-mid",
                                     Num(at.today), Num(at.tomorrow)),
                        record, record_index + 1, end_timestamp, timezone, day_stride)

\* the body of records.forEach for the record at place i
ActivitiesOfRecord(st, rs, i, timezone, day_stride) ==
    LET start_timestamp == Get(rs[i], "start")
        end_timestamp == Get(rs[i], "end")
    IN  IF Truthy(start_timestamp)
        THEN LET at == advance_to(st, start_timestamp[1], timezone, day_stride)
             IN  IF Truthy(end_timestamp)
                 THEN IF at.tomorrow >= end_timestamp[1]
                      THEN PushActivity(at, i, 0, "start-end",
                                        start_timestamp, end_timestamp)
                      ELSE MiddleDays(PushActivity(at, i, 0, "start-mid",
                                                   start_timestamp, Num(at.tomorrow)),
                                      i, 1, end_timestamp[1], timezone, day_stride)
                 ELSE PushActivity(at, i, 0, "start-unknown", start_timestamp, NaN)
        ELSE IF Truthy(end_timestamp)
        THEN PushActivity(advance_to(st, end_timestamp[1], timezone, day_stride),
                          i, 0, "unknown-end", NaN, end_timestamp)
        ELSE st

RECURSIVE ActivitiesFrom(_, _, _, _, _)
ActivitiesFrom(st, rs, i, timezone, day_stride) ==
    IF i > Len(rs) THEN st
    ELSE ActivitiesFrom(ActivitiesOfRecord(st, rs, i, timezone, day_stride),
                        rs, i + 1, timezone, day_stride)

\* DiaryBase.date(time, timezone).toString(): the local time and its offset
DateString(time, timezone) ==
    <<time + ZoneOffset(time, timezone), ZoneOffset(time, timezone)>>

NoSummary ==
    [duration |-> Num(0), first_start |-> NaN, last_start |-> NaN,
     first_end |-> NaN, last_end |-> NaN]

\* one activity added to the summary of its status
Summarised1(summary, activity, timezone) ==
    LET s == IF activity.start = NaN THEN summary
             ELSE [summary EXCEPT
                     !.last_start = DateString(activity.start[1], timezone),
                     !.first_start = IF @ = NaN
                                     THEN DateString(activity.start[1], timezone)
                                     ELSE @]
        e == IF activity.end = NaN THEN s
             ELSE [s EXCEPT
                     !.last_end = DateString(activity.end[1], timezone),
                     !.first_end = IF @ = NaN
                                   THEN DateString(activity.end[1], timezone)
                                   ELSE @]
    IN  [e EXCEPT !.duration =
            IF Truthy(activity.start) /\ Truthy(activity.end)
            THEN Plus(@, Minus(activity.end, activity.start))
            ELSE NaN]

RECURSIVE ActivitySummaries(_, _, _, _)
ActivitySummaries(summaries, activities, rs, timezone) ==
    IF activities = <<>> THEN summaries
    ELSE LET status == rs[activities[1].record].status
             summary == IF status \in DOMAIN summaries THEN summaries[status]
                        ELSE NoSummary
             next == Summarised1(summary, activities[1], timezone)
         IN  ActivitySummaries(
                 [s \in DOMAIN summaries \cup {status} |->
                     IF s = status THEN next ELSE summaries[s]],
                 Tail(activities), rs, timezone)

\* daily_activities on the store rs as its sort left it
daily_activities(rs, timezone, day_start, day_stride) ==
    LET dated == {i \in DOMAIN rs : Truthy(StartOrEnd(rs[i]))}
    IN  IF dated = {} THEN <<>>
        ELSE LET found == CHOOSE i \in dated : \A j \in dated : i <= j
                 st == ActivitiesFrom(
                           FirstDay(StartOrEnd(rs[found])[1], timezone,
                                    day_start, day_stride),
                           rs, 1, timezone, day_stride)
             IN  [k \in DOMAIN st.days |->
                     [start |-> st.days[k].start,
                      end |-> st.days[k].end,
                      duration |-> st.days[k].duration,
                      activities |-> st.days[k].activities,
                      activity_summaries |->
                          ActivitySummaries(<<>>, st.days[k].activities, rs, timezone)]]

\* latest_sleep_status()
latest_sleep_status(rs) ==
    LET relevant == {n \in DOMAIN rs : rs[n].status \in {"awake", "asleep"}}
    IN  IF relevant = {} THEN ""
        ELSE rs[CHOOSE n \in relevant : \A m \in relevant : m <= n].status

(***************************************************************************)
(* summarise on its own, on short series of every shape and on series long *)
(* enough for the rolling average                                          *)
(***************************************************************************)
MaxShort == 5
MaxSeries == 16

ShortValues == {<<>>, <<NaN, Num(5)>>, <<Num(10), Num(5)>>, <<Num(20), Num(6)>>,
                <<Num(30), Num(7)>>, <<Num(40), Num(8)>>}

SeriesPatterns == {"flat", "ramp", "edges"}

PatternValue(p, i) ==
    CASE p = "flat" -> 10
      [] p = "ramp" -> i
      [] p = "edges" -> IF i % 2 = 0 THEN 1 ELSE 23

\* entries that stand out of the pattern: a hole, an undefined value, a value
SeriesSpecials == {<<>>, <<NaN, Num(5)>>, <<Num(40), Num(5)>>}

Series(n, p, H, special, inverted) ==
    [i \in 1..n |->
        IF (i \in H) # inverted THEN special ELSE <<Num(PatternValue(p, i)), Num(i)>>]

SeriesInputs ==
    {Series(n, p, H, special, inverted) :
        n \in (MaxSeries - 2)..MaxSeries, p \in SeriesPatterns,
        H \in {{}} \cup {{a, b} : a, b \in 1..MaxSeries},
        special \in SeriesSpecials, inverted \in BOOLEAN}

InitStatistics ==
    /\ input = <<>>
    /\ settings_in = [minimum_day_duration |-> 0, maximum_day_duration |-> 0]
    /\ pc = "new"
    /\ records = <<>>
    /\ settings = MakeSettings(settings_in)
    /\ order = <<>>
    /\ scan = <<>>
    /\ rederived = <<>>
    /\ calls = 0
    /\ call = NoCall
    /\ result = NoCall

\* DiaryStandard.summarise(pairs, rolling_average_max) on a short series
SummariseShort ==
    /\ calls < MaxCalls
    /\ calls' = calls + 1
    /\ \E pairs \in SeqsUpTo(ShortValues, MaxShort), max \in {0, DefaultDayLength} :
          /\ call' = [name |-> "summarise", pairs |-> pairs,
                      rolling_average_max |-> max]
          /\ result' = summarise(pairs, max)
    /\ UNCHANGED <<input, settings_in, pc, records, settings, order, scan, rederived>>

\* DiaryStandard.summarise(pairs, rolling_average_max) on a long series
SummariseSeries ==
    /\ calls < MaxCalls
    /\ calls' = calls + 1
    /\ \E pairs \in SeriesInputs, max \in {0, DefaultDayLength} :
          /\ call' = [name |-> "summarise", pairs |-> pairs,
                      rolling_average_max |-> max]
          /\ result' = summarise(pairs, max)
    /\ UNCHANGED <<input, settings_in, pc, records, settings, order, scan, rederived>>

NextStatistics == SummariseShort \/ SummariseSeries

SpecStatistics == InitStatistics /\ [][NextStatistics]_vars

(***************************************************************************)
(* daily_activities and latest_sleep_status on a constructed diary         *)
(***************************************************************************)
MaxActivityRecords == 3
MaxActivityCalls == 2

\* with the default day_start the days of a zone without offset begin at 18,
\* 42, 66, 90 and 114
ActivityRecords ==
    {[status |-> "asleep", start |-> 20, end |-> 23],
     [status |-> "asleep", start |-> 40, end |-> 47],
     [status |-> "asleep", start |-> 30, end |-> 100],
     [status |-> "asleep", start |-> 100, end |-> 130],
     [status |-> "asleep", start |-> 40, end |-> 130],
     [status |-> "awake", start |-> 24, end |-> 42],
     [status |-> "snack", start |-> 44, end |-> 45],
     [status |-> "awake", start |-> 45],
     [status |-> "awake", end |-> 5],
     [status |-> "snack"]}

ActivityInputs == SeqsUpTo(ActivityRecords, MaxActivityRecords)

InitActivities ==
    /\ input \in ActivityInputs
    /\ settings_in = [minimum_day_duration |-> 0, maximum_day_duration |-> 0]
    /\ pc = "new"
    /\ records = <<>>
    /\ settings = MakeSettings(settings_in)
    /\ order = <<>>
    /\ scan = <<>>
    /\ rederived = <<>>
    /\ calls = 0
    /\ call = NoCall
    /\ result = NoCall

\* daily_activities(timezone, day_start, day_stride); a timezone of "", a
\* day_start of -1 and a day_stride of 0 stand for absent arguments.  The
\* sort of line 1248 is a sort of this.records itself.  The call is not
\* repeated immediately.
DailyActivitiesWith(zones, starts, strides) ==
    /\ pc = "constructed"
    /\ calls < MaxActivityCalls
    /\ call.name # "daily_activities"
    /\ calls' = calls + 1
    /\ \E zone \in zones, start \in starts, stride \in strides :
          \E p \in ActivitySortOutcomes(records) :
              LET timezone == IF zone # "" THEN zone ELSE SystemTimezone
                  day_start == IF start = -1 THEN DefaultDayStart ELSE start
                  day_stride == IF stride # 0 THEN stride ELSE DefaultDayStride
                  sorted == [i \in DOMAIN records |-> records[p[i]]]
              IN  /\ records' = sorted
                  /\ call' = [name |-> "daily_activities", timezone |-> timezone,
                              day_start |-> day_start, day_stride |-> day_stride]
                  /\ result' = [kind |-> "days",
                                days |-> daily_activities(sorted, timezone,
                                                          day_start, day_stride)]
    /\ UNCHANGED <<input, settings_in, pc, settings, order, scan, rederived>>

ActivityZones == {"", "Etc/GMT-1", DstZone}

DailyActivities == DailyActivitiesWith(ActivityZones, {-1, 0}, {0, 12})

LatestSleepStatus ==
    /\ pc = "constructed"
    /\ calls < MaxActivityCalls
    /\ calls' = calls + 1
    /\ call' = [name |-> "latest_sleep_status"]
    /\ result' = [kind |-> "status", status |-> latest_sleep_status(records)]
    /\ UNCHANGED <<input, settings_in, pc, records, settings, order, scan, rederived>>

NextActivities == Construct \/ DailyActivities \/ LatestSleepStatus

SpecActivities == InitActivities /\ [][NextActivities]_vars

(***************************************************************************)
(* daily_activities on a diary of one record, for every hour of the first  *)
(* record and every hour of day_start                                      *)
(***************************************************************************)
MaxTimestamp == 150

FirstRecordInputs ==
    {<<[status |-> "awake", start |-> time]>> : time \in 1..MaxTimestamp}

InitFirstDay ==
    /\ input \in FirstRecordInputs
    /\ settings_in = [minimum_day_duration |-> 0, maximum_day_duration |-> 0]
    /\ pc = "new"
    /\ records = <<>>
    /\ settings = MakeSettings(settings_in)
    /\ order = <<>>
    /\ scan = <<>>
    /\ rederived = <<>>
    /\ calls = 0
    /\ call = NoCall
    /\ result = NoCall

DailyActivitiesAnyStart == DailyActivitiesWith(ActivityZones, -1..23, {0, 12})

NextFirstDay == Construct \/ DailyActivitiesAnyStart

SpecFirstDay == InitFirstDay /\ [][NextFirstDay]_vars

(***************************************************************************)
(* merge(other), other being a DiaryStandard, which other.to("Standard")   *)
(* returns as it is                                                        *)
(***************************************************************************)
\* [ r.start, r.end, r.status ].join()
MergeKey(r) == <<Get(r, "start"), Get(r, "end"), r.status>>

\* Object.values of the object filled with records[key] = r: each key at the
\* place of its first record, with the value of its last
RECURSIVE MergeValues(_, _)
MergeValues(rs, seen) ==
    IF rs = <<>> THEN <<>>
    ELSE IF MergeKey(rs[1]) \in seen THEN MergeValues(Tail(rs), seen)
    ELSE LET same == {i \in DOMAIN rs : MergeKey(rs[i]) = MergeKey(rs[1])}
             last == CHOOSE i \in same : \A j \in same : j <= i
         IN  <<rs[last]>> \o MergeValues(Tail(rs), seen \cup {MergeKey(rs[1])})

\* the records of this and of other, before the sort
merge(this_records, other_records) == MergeValues(this_records \o other_records, {})

MergeRecords ==
    {[status |-> "asleep", start |-> 20, end |-> 23],
     [status |-> "asleep", start |-> 40, end |-> 46],
     [status |-> "asleep", start |-> 60, end |-> 63],
     [status |-> "awake", start |-> 23, end |-> 40],
     [status |-> "asleep", start |-> 20, end |-> 23, is_primary_sleep |-> FALSE],
     [status |-> "snack"]}

MaxMergeRecords == 2

MergeInputs == SeqsUpTo(MergeRecords, MaxMergeRecords)

InitMerge ==
    /\ input \in MergeInputs
    /\ settings_in = [minimum_day_duration |-> 0, maximum_day_duration |-> 0]
    /\ pc = "new"
    /\ records = <<>>
    /\ settings = MakeSettings(settings_in)
    /\ order = <<>>
    /\ scan = <<>>
    /\ rederived = <<>>
    /\ calls = 0
    /\ call = NoCall
    /\ result = NoCall

\* this.merge(other) for another diary constructed from other_input
Merge ==
    /\ pc = "constructed"
    /\ calls < MaxCalls
    /\ calls' = calls + 1
    /\ \E other_input \in MergeInputs :
          \E q \in SortOutcomes(other_input) :
              LET other == Derive(other_input, q, MakeSettings(settings_in)).records
                  merged == merge(records, other)
              IN  \E p \in SortOutcomes(merged) :
                      /\ records' = [i \in DOMAIN merged |-> merged[p[i]]]
                      /\ call' = [name |-> "merge", other_input |-> other_input,
                                  this |-> records, other |-> other,
                                  merged |-> merged]
                      /\ result' = [kind |-> "merged"]
    /\ UNCHANGED <<input, settings_in, pc, settings, order, scan, rederived>>

NextMerge == Construct \/ Merge

SpecMerge == InitMerge /\ [][NextMerge]_vars

(***************************************************************************)
(* The field clean-up at the start of an iteration of the scan, on records *)
(* whose fields hold any kind of value                                     *)
(*                                                                         *)
(* A value is <<kind, n>>: <<"number", n>>, <<"Infinity", 1>> and          *)
(* <<"Infinity", -1>>, <<"NaN", 0>>, <<"undefined", 0>>, <<"null", 0>>,    *)
(* <<"string", 0>> for a string that is not a numeral, and <<"array", n>>  *)
(* for an array of n elements.                                             *)
(***************************************************************************)
Undefined == <<"undefined", 0>>

NotANumber == <<"NaN", 0>>

TimestampValues ==
    {<<"number", 0>>, <<"number", 20>>, <<"number", 23>>, <<"Infinity", 1>>,
     NotANumber, Undefined, <<"null", 0>>, <<"string", 0>>}

ListValues == {<<"array", 0>>, <<"array", 1>>, Undefined}

DurationValues == {<<"number", 3>>}

\* r[key]
Read(r, key) == IF key \in DOMAIN r THEN r[key] ELSE Undefined

\* delete r[key]
Delete(r, key) == [k \in DOMAIN r \ {key} |-> r[k]]

\* value == undefined
IsNullish(value) == value[1] \in {"undefined", "null"}

ToNumber(value) ==
    CASE value[1] \in {"number", "Infinity", "NaN"} -> value
      [] value[1] = "null" -> <<"number", 0>>
      [] OTHER -> NotANumber

\* a - b
Subtract(a, b) ==
    LET x == ToNumber(a)
        y == ToNumber(b)
    IN  CASE x = NotANumber \/ y = NotANumber -> NotANumber
          [] x[1] = "Infinity" /\ y[1] = "Infinity" ->
                IF x[2] = y[2] THEN NotANumber ELSE x
          [] x[1] = "Infinity" -> x
          [] y[1] = "Infinity" -> <<"Infinity", -y[2]>>
          [] OTHER -> <<"number", x[2] - y[2]>>

\* if ( r[key] == undefined ) delete r[key]
DeleteNullish(r, key) == IF IsNullish(Read(r, key)) THEN Delete(r, key) ELSE r

\* if ( !(r[key]||[]).length ) delete r[key]
DeleteEmpty(r, key) ==
    LET value == Read(r, key)
    IN  IF value[1] = "array" /\ value[2] > 0 THEN r ELSE Delete(r, key)

\* the duration of a record that does not have one
DefaultDuration(r) ==
    IF "duration" \in DOMAIN r THEN r
    ELSE LET duration == Subtract(Read(r, "end"), Read(r, "start"))
         IN  IF duration = NotANumber THEN r
             ELSE [k \in DOMAIN r \cup {"duration"} |->
                      IF k = "duration" THEN duration ELSE r[k]]

CleanUpRecord(r) ==
    DefaultDuration(
        DeleteEmpty(DeleteEmpty(DeleteNullish(DeleteNullish(r, "start"), "end"),
                                "tags"), "comments"))

\* the records with any of start, end, tags, comments and duration
CleanUpInputs ==
    UNION {[keys -> TimestampValues \cup ListValues \cup DurationValues] :
              keys \in SUBSET {"start", "end", "tags", "duration"}}

WellFormedInput(r) ==
    /\ \A key \in DOMAIN r \cap {"start", "end"} : r[key] \in TimestampValues
    /\ \A key \in DOMAIN r \cap {"tags"} : r[key] \in ListValues
    /\ \A key \in DOMAIN r \cap {"duration"} : r[key] \in DurationValues

InitCleanUp ==
    /\ input \in {<<r>> : r \in {x \in CleanUpInputs : WellFormedInput(x)}}
    /\ settings_in = [minimum_day_duration |-> 0, maximum_day_duration |-> 0]
    /\ pc = "new"
    /\ records = <<>>
    /\ settings = MakeSettings(settings_in)
    /\ order = <<>>
    /\ scan = <<>>
    /\ rederived = <<>>
    /\ calls = 0
    /\ call = NoCall
    /\ result = NoCall

\* lines 514 to 524 of the scan on the one record of the list
CleanUp ==
    /\ pc = "new"
    /\ records' = <<CleanUpRecord(input[1])>>
    /\ pc' = "cleaned"
    /\ UNCHANGED <<input, settings_in, settings, order, scan, rederived,
                   calls, call, result>>

NextCleanUp == CleanUp

SpecCleanUp == InitCleanUp /\ [][NextCleanUp]_vars

(***************************************************************************)
(* Properties of the derivation pass                                       *)
(***************************************************************************)
Constructed == pc \in {"constructed", "rederived"}

\* record i of the store was supplied with its own property f
Explicit(i, f) == f \in DOMAIN input[order[i]]

DayNumbers == {records[i].day_number : i \in DOMAIN records}

SleepsOfDay(d) ==
    {i \in DOMAIN records :
        /\ records[i].day_number = d
        /\ records[i].status = "asleep"
        /\ "duration" \in DOMAIN records[i]}

PrimaryOfDay(d) ==
    {i \in DOMAIN records :
        records[i].day_number = d /\ IsTrue(records[i], "is_primary_sleep")}

OnePrimarySleep(d) ==
    \E i \in SleepsOfDay(d) :
        /\ PrimaryOfDay(d) = {i}
        /\ \A j \in SleepsOfDay(d) : records[j].duration <= records[i].duration

\* C1 as stated: after construction from any record list, every day number
\* with an asleep record of defined duration has exactly one record with
\* is_primary_sleep = true, an asleep record of maximal duration for that day.
C1_PrimarySleepUnique ==
    Constructed =>
        \A d \in DayNumbers : SleepsOfDay(d) # {} => OnePrimarySleep(d)

\* C1 amended: the same, for every day number none of whose records supplies
\* is_primary_sleep explicitly.
C1_PrimarySleepUniqueDerived ==
    Constructed =>
        \A d \in DayNumbers :
            /\ SleepsOfDay(d) # {}
            /\ \A i \in DOMAIN records :
                  records[i].day_number = d => ~Explicit(i, "is_primary_sleep")
            => OnePrimarySleep(d)

C1_Witness ==
    /\ Constructed
    /\ \E i, j \in DOMAIN records :
          /\ i < j
          /\ {i, j} \subseteq SleepsOfDay(records[i].day_number)
          /\ records[i].duration < records[j].duration
          /\ PrimaryOfDay(records[i].day_number) = {j}
          /\ \A k \in DOMAIN records : ~Explicit(k, "is_primary_sleep")

\* C2 as stated: after construction day_number is non-decreasing along the
\* record list.
C2_DayNumberMonotone ==
    Constructed =>
        \A i \in DOMAIN records : i + 1 \in DOMAIN records =>
            records[i].day_number <= records[i + 1].day_number

\* C2 amended: day_number does not decrease from a record to the next one
\* unless the next one supplies its day_number explicitly.
C2_DayNumberMonotoneDerived ==
    Constructed =>
        \A i \in DOMAIN records :
            i + 1 \in DOMAIN records /\ ~Explicit(i + 1, "day_number") =>
                records[i].day_number <= records[i + 1].day_number

C2_Witness ==
    /\ Constructed
    /\ Len(records) = 3
    /\ \A i \in DOMAIN records : ~Explicit(i, "day_number")
    /\ records[1].day_number < records[2].day_number
    /\ records[2].day_number < records[3].day_number

\* the day number of the record before record i (the initial 0 for the first)
PreviousDayNumber(i) == IF i = 1 THEN 0 ELSE records[i - 1].day_number

DayNumberStep(i) ==
    LET r == records[i]
        step == r.day_number - PreviousDayNumber(i)
        skipped == Gt(Get(r, "start"),
                      Plus(scan[i].day_start, Num(settings.maximum_day_duration)))
    IN  IF r.start_of_new_day
        THEN step \in {1, 2} /\ (step = 2 <=> skipped)
        ELSE step = 0

\* C3 as stated: day_number increases by exactly 1 or 2 at each record with
\* start_of_new_day = true (by 2 iff start > day_start + maximum_day_duration)
\* and is unchanged at every record with start_of_new_day = false.
C3_DayNumberStep ==
    Constructed => \A i \in DOMAIN records : DayNumberStep(i)

\* C3 amended: the same, at every record that supplies neither day_number
\* nor start_of_new_day explicitly.
C3_DayNumberStepDerived ==
    Constructed =>
        \A i \in DOMAIN records :
            ~Explicit(i, "day_number") /\ ~Explicit(i, "start_of_new_day")
                => DayNumberStep(i)

C3_Witness ==
    /\ Constructed
    /\ \E i, j \in DOMAIN records :
          /\ i < j
          /\ \A k \in {i, j} :
                ~Explicit(k, "day_number") /\ ~Explicit(k, "start_of_new_day")
          /\ records[i].start_of_new_day
          /\ records[i].day_number - PreviousDayNumber(i) = 2
          /\ records[j].start_of_new_day
          /\ records[j].day_number - PreviousDayNumber(j) = 1

HasTimes(r) == "start" \in DOMAIN r /\ "end" \in DOMAIN r

InOrder(a, b) == a.start < b.start \/ (a.start = b.start /\ a.end <= b.end)

\* C4: for all inputs, also with records whose start or end is absent, the
\* record list is sorted ascending by (start, end).  Stated over the records
\* that have both timestamps, which every ordering of the absent ones implies:
\* of two such records the one that sorts strictly first comes first.
C4_SortedByStartEnd ==
    Constructed =>
        \A i, j \in DOMAIN records :
            i < j /\ HasTimes(records[i]) /\ HasTimes(records[j])
                => InOrder(records[i], records[j])

SleepWake(i) == records[i].status \in {"awake", "asleep"}

\* i and j are consecutive once the records of every other status are ignored
ConsecutiveSleepWake(i, j) ==
    /\ i < j
    /\ SleepWake(i)
    /\ SleepWake(j)
    /\ \A k \in DOMAIN records : i < k /\ k < j => ~SleepWake(k)

MissingRecordDetected(i, j) ==
    /\ "missing_record_after" \in DOMAIN records[i]
    /\ records[i].missing_record_after
          = (records[i].status = records[j].status)

\* C5 as stated: of two consecutive sleep/wake records a, b the earlier one has
\* missing_record_after = true iff a.status = b.status, and false otherwise.
C5_MissingRecordAfter ==
    Constructed =>
        \A i, j \in DOMAIN records :
            ConsecutiveSleepWake(i, j) => MissingRecordDetected(i, j)

\* C5 amended: the same, unless a supplies missing_record_after explicitly.
C5_MissingRecordAfterDerived ==
    Constructed =>
        \A i, j \in DOMAIN records :
            ConsecutiveSleepWake(i, j) /\ ~Explicit(i, "missing_record_after")
                => MissingRecordDetected(i, j)

C5_Witness ==
    /\ Constructed
    /\ \A i \in DOMAIN records : ~Explicit(i, "missing_record_after")
    /\ \E i, j \in DOMAIN records :
          /\ ConsecutiveSleepWake(i, j)
          /\ j = i + 2
          /\ records[i].status = "asleep"
          /\ records[j].status = "asleep"
          /\ records[i + 1].status = "snack"
          /\ records[i].missing_record_after

DerivedFields ==
    {"day_number", "start_of_new_day", "is_primary_sleep",
     "missing_record_after", "duration"}

\* C6: a derived field that the input record supplies explicitly keeps its
\* value, and an explicit day_number is the running day number of the
\* records that follow.
C6_ExplicitFieldsKept ==
    Constructed =>
        \A i \in DOMAIN records :
            /\ \A f \in DerivedFields :
                  Explicit(i, f) =>
                      f \in DOMAIN records[i] /\ records[i][f] = input[order[i]][f]
            /\ Explicit(i, "day_number") /\ i + 1 \in DOMAIN records
                  /\ ~Explicit(i + 1, "day_number")
                  => LET step == records[i + 1].day_number - records[i].day_number
                     IN  IF records[i + 1].start_of_new_day
                         THEN step \in {1, 2} ELSE step = 0

C6_Witness ==
    /\ Constructed
    /\ Len(records) = 2
    /\ Explicit(1, "day_number")
    /\ records[1].day_number = 3
    /\ Explicit(1, "is_primary_sleep")
    /\ ~records[1].is_primary_sleep
    /\ SleepsOfDay(3) = {1}
    /\ ~Explicit(2, "day_number")
    /\ records[2].day_number = 4

\* C7: constructing a DiaryStandard from the records and settings of a
\* constructed one yields an identical record list.
C7_Idempotent == pc = "rederived" => rederived = records

(***************************************************************************)
(* Properties of the analytics                                             *)
(***************************************************************************)
Matching(filter) == {i \in DOMAIN records : FilterMatches(filter, records[i])}

NoDefinedValue(pairs) ==
    \A i \in DOMAIN pairs : pairs[i] = <<>> \/ pairs[i][1] = NaN

\* the matching records that the call named in `call` draws its values from
Qualifying ==
    CASE call.name = "summarise_records" ->
             {i \in Matching(call.filter) : "duration" \in DOMAIN records[i]}
      [] call.name = "summarise_days" ->
             {i \in Matching(call.filter) :
                 /\ records[i].start_of_new_day
                 /\ \E j \in Matching(call.filter) :
                       /\ records[j].start_of_new_day
                       /\ records[j].day_number = records[i].day_number + 1}
      [] call.name = "summarise_schedule" ->
             {i \in Matching(call.filter) : IsTrue(records[i], "is_primary_sleep")}
      [] OTHER -> {}

\* C8: no-data conditions return null and never raise: summarise on pairs
\* without a defined value, and summarise_records, summarise_days and
\* summarise_schedule (both sleep and wake) on a diary with no qualifying
\* record.
C8_NoDataIsNull ==
    /\ call.name = "summarise" /\ NoDefinedValue(call.pairs) => result = Null
    /\ call.name \in {"summarise_records", "summarise_days"} /\ Qualifying = {}
          => result = Null
    /\ call.name = "summarise_schedule" /\ Qualifying = {}
          => result.sleep = Null /\ result.wake = Null

C8_Witness ==
    \/ /\ call.name = "summarise"
       /\ Len(call.pairs) = 2
       /\ NoDefinedValue(call.pairs)
       /\ result = Null
    \/ /\ call.name = "summarise_schedule"
       /\ call.filter = "none"
       /\ Len(records) = 2
       /\ Qualifying = {}
       /\ result.sleep = Null

\* the local times of day that summarise_schedule averages for key, as <<value>>
TimesOfDay(key) ==
    {Num(JSMod(LocalTime(records[i], key, call.timezone)[1], call.day_length)) :
        i \in {j \in Qualifying : Truthy(Get(records[j], key))}}

\* x is a number <<v>> or a fraction <<a, b>>
Denominator(x) == IF Len(x) = 2 THEN x[2] ELSE 1

NearZero(x) == x[1] * 4 < call.day_length * Denominator(x)

NearDayLength(x) == x[1] * 4 > 3 * call.day_length * Denominator(x)

\* the times of day lie near 0 and near day_length, some on either side
Clustered(key) ==
    /\ \A x \in TimesOfDay(key) : NearZero(x) \/ NearDayLength(x)
    /\ \E x \in TimesOfDay(key) : NearZero(x)
    /\ \E x \in TimesOfDay(key) : NearDayLength(x)

KeyOf(q) == IF q = "sleep" THEN "start" ELSE "end"

\* C9: when the primary sleeps' local times of day are clustered near 0 and
\* near day_length, summarise_schedule selects the late series and reports an
\* average near 00:00 (near 0 or near day_length), not near day_length/2.
C9_CircularCorrection ==
    call.name = "summarise_schedule" =>
        \A q \in {"sleep", "wake"} :
            Clustered(KeyOf(q)) =>
                /\ call.selected[q] = "late"
                /\ NearZero(result[q].average) \/ NearDayLength(result[q].average)

C9_Witness ==
    /\ call.name = "summarise_schedule"
    /\ call.day_length = 24
    /\ Clustered("start")
    /\ Cardinality(Qualifying) = 3
    /\ call.selected.sleep = "late"
    /\ result.sleep.average = <<0, 3>>

\* C10: for each of sleep and wake the early statistics are returned iff
\* their standard deviation is strictly lower than the late ones', otherwise
\* the late ones are; the returned standard deviation is the lower of the two.
C10_LowerDeviationSelected ==
    call.name = "summarise_schedule" =>
        \A q \in {"sleep", "wake"} :
            LET early == call.early[q]
                late == call.late[q]
            IN  IF early = Null \/ late = Null
                THEN call.selected[q] = "late" /\ result[q] = Null
                ELSE /\ call.selected[q] = "early"
                        <=> FractionLess(early.standard_deviation,
                                         late.standard_deviation)
                     /\ call.selected[q] = "early" => result[q] = early
                     /\ call.selected[q] = "late"
                        => result[q].standard_deviation = late.standard_deviation
                     /\ ~FractionLess(early.standard_deviation,
                                      result[q].standard_deviation)
                     /\ ~FractionLess(late.standard_deviation,
                                      result[q].standard_deviation)

C10_Witness ==
    /\ call.name = "summarise_schedule"
    /\ call.early.sleep # Null
    /\ call.selected.sleep = "late"
    /\ call.early.sleep.standard_deviation # <<0, 1>>
    /\ ~FractionLess(call.late.sleep.standard_deviation,
                     call.early.sleep.standard_deviation)
    /\ call.selected.wake = "early"

(***************************************************************************)
(* Properties of the statistics                                            *)
(***************************************************************************)
Summarised == call.name = "summarise" /\ result.kind = "statistics"

\* the 0-based indices of the pairs with a defined value among from..to
DefinedAt(pairs, from, to) ==
    {j \in from..to : j + 1 \in DOMAIN pairs /\ pairs[j + 1] # <<>>
                        /\ pairs[j + 1][1] # NaN}

RECURSIVE SumAt(_, _)
SumAt(pairs, J) ==
    IF J = {} THEN 0
    ELSE LET j == CHOOSE k \in J : TRUE
         IN  pairs[j + 1][1][1] + SumAt(pairs, J \ {j})

\* x is the fraction total/count
IsMeanOf(x, total, count) == x # NaN /\ x[1] * count = total * x[2]

WindowMean(pairs, i) ==
    LET J == DefinedAt(pairs, (IF i - 13 > 0 THEN i - 13 ELSE 0), i)
    IN  IF J = {} THEN result.rolling_average[i + 1] = NaN
        ELSE IsMeanOf(result.rolling_average[i + 1], SumAt(pairs, J), Cardinality(J))

RankBelow(pairs, x) ==
    Cardinality({j \in DefinedAt(pairs, 0, Len(pairs) - 1) : pairs[j + 1][1][1] < x})

RankUpTo(pairs, x) ==
    Cardinality({j \in DefinedAt(pairs, 0, Len(pairs) - 1) : pairs[j + 1][1][1] <= x})

\* x is the value at 0-based position k of the defined values in ascending order
IsSortedValue(pairs, k, x) == RankBelow(pairs, x) <= k /\ k < RankUpTo(pairs, x)

AllDefined(pairs) == DefinedAt(pairs, 0, Len(pairs) - 1)

\* C12: interquartile_durations is the slice round(0.25 n) .. round(0.75 n)
\* (upper bound exclusive, halves rounded up) of the defined values in ascending
\* order, interquartile_mean its mean, interquartile_range its last minus its
\* first element, and mean the mean of all defined values.
C12_InterquartileSlice ==
    Summarised =>
        LET pairs == call.pairs
            n == Cardinality(AllDefined(pairs))
            lower == (n + 2) \div 4
            upper == (3 * n + 2) \div 4
            slice == result.interquartile_durations
        IN  /\ n >= 1
            /\ Len(slice) = upper - lower
            /\ \A k \in DOMAIN slice : IsSortedValue(pairs, lower + k - 1, slice[k])
            /\ IsMeanOf(result.interquartile_mean, Sum(slice), Len(slice))
            /\ result.interquartile_range = slice[Len(slice)] - slice[1]
            /\ IsMeanOf(result.mean, SumAt(pairs, AllDefined(pairs)), n)

C12_Witness ==
    /\ Summarised
    /\ call.pairs = <<<<Num(40), Num(8)>>, <<Num(10), Num(5)>>,
                      <<Num(30), Num(7)>>, <<Num(20), Num(6)>>>>
    /\ result.mean = <<100, 4>>
    /\ result.interquartile_durations = <<20, 30>>
    /\ result.interquartile_mean = <<50, 2>>
    /\ result.interquartile_range = 10

\* C13: median is the value at 0-based position floor(n/2) of the defined
\* values in ascending order, the upper of the two middle values when n is
\* even, and always one of the input values.
C13_MedianUpperMiddle ==
    Summarised =>
        LET pairs == call.pairs
            n == Cardinality(AllDefined(pairs))
        IN  /\ IsSortedValue(pairs, n \div 2, result.median)
            /\ \E j \in AllDefined(pairs) : pairs[j + 1][1][1] = result.median

C13_Witness ==
    /\ Summarised
    /\ Cardinality(AllDefined(call.pairs)) = 4
    /\ {call.pairs[j + 1][1][1] : j \in AllDefined(call.pairs)} = {10, 20, 30, 40}
    /\ result.median = 30

(***************************************************************************)
(* Properties of the daily activities                                      *)
(***************************************************************************)
Segmented == call.name = "daily_activities" /\ result.kind = "days"

\* the activities of the record at place i: <<day index, place in the day>>
ActivitiesOf(i) ==
    {kn \in UNION {{k} \X DOMAIN result.days[k].activities :
                      k \in DOMAIN result.days} :
        result.days[kn[1]].activities[kn[2]].record = i}

ActivityAt(kn) == result.days[kn[1]].activities[kn[2]]

\* the start of the day with index 0 on a grid without offset changes
GridBase ==
    LET k == CHOOSE j \in DOMAIN result.days : TRUE
    IN  result.days[k].start - k * call.day_stride

\* the index of the grid day an instant falls into, a boundary counting as
\* the start of a day (DayOfStart) or as the end of one (DayOfEnd)
DayOfStart(time) == (time - GridBase) \div call.day_stride

DayOfEnd(time) == ((time - GridBase + call.day_stride - 1) \div call.day_stride) - 1

\* the one activity of record i in day k, of this type and extent
OneActivity(i, k, type, start, end) ==
    \E kn \in ActivitiesOf(i) :
        /\ kn[1] = k
        /\ \A other \in ActivitiesOf(i) : other[1] = k => other = kn
        /\ k \in DOMAIN result.days
        /\ ActivityAt(kn).type = type
        /\ ActivityAt(kn).start = Num(start)
        /\ ActivityAt(kn).end = Num(end)

SplitOverDays(i) ==
    LET r == records[i]
        first == DayOfStart(r.start)
        last == DayOfEnd(r.end)
    IN  last > first =>
            /\ OneActivity(i, first, "start-mid", r.start,
                           GridBase + (first + 1) * call.day_stride)
            /\ \A k \in (first + 1)..(last - 1) :
                  OneActivity(i, k, "mid-mid", GridBase + k * call.day_stride,
                              GridBase + (k + 1) * call.day_stride)
            /\ OneActivity(i, last, "mid-end",
                           GridBase + last * call.day_stride, r.end)
            /\ \A kn \in ActivitiesOf(i) : kn[1] \in first..last

\* C14: in a zone without offset changes a record with both start and end
\* that extends over k >= 2 days has exactly one start-mid activity in its
\* first day (from its start to the end of that day), one mid-mid activity
\* spanning each of the k-2 days in between, one mid-end activity in its last
\* day (from the start of that day to its end), and no other activity.
C14_SplitOverDays ==
    Segmented /\ call.timezone # DstZone =>
        \A i \in DOMAIN records :
            Truthy(Get(records[i], "start")) /\ Truthy(Get(records[i], "end"))
                => SplitOverDays(i)

InUnit(x) == x # NaN => 0 <= x[1] /\ x[1] <= x[2]

WithinDay(day, activity) ==
    /\ activity.start # NaN =>
          day.start <= activity.start[1] /\ activity.start[1] <= day.end
    /\ activity.end # NaN =>
          day.start <= activity.end[1] /\ activity.end[1] <= day.end
    /\ activity.start # NaN /\ activity.end # NaN =>
          activity.start[1] <= activity.end[1]
    /\ InUnit(activity.offset_start)
    /\ InUnit(activity.offset_end)
    /\ InUnit(activity.offset_time)

\* C15: every activity of every day returned by daily_activities lies within
\* that day, so that offset_start, offset_end and offset_time are in [0,1],
\* for any record list.
C15_ActivityWithinDay ==
    Segmented =>
        \A k \in DOMAIN result.days :
            \A n \in DOMAIN result.days[k].activities :
                WithinDay(result.days[k], result.days[k].activities[n])

\* C16: the analytics calls leave the record store as the constructor left
\* it, in the same order and with the same field values.
C16_StoreUnchanged ==
    pc = "constructed" =>
        records = Derive(input, order, MakeSettings(settings_in)).records

(***************************************************************************)
(* Properties of merge                                                     *)
(***************************************************************************)
Merged == call.name = "merge"

\* the records as supplied to the two diaries, merged
MergedInput == merge(input, call.other_input)

\* C17: after a.merge(b) the records of a are those of a DiaryStandard
\* constructed from the merged raw records: sorted, with the derived fields
\* computed over the merged list.
C17_MergeRederives ==
    Merged =>
        \E p \in SortOutcomes(MergedInput) :
            records = Derive(MergedInput, p, MakeSettings(settings_in)).records

(***************************************************************************)
(* Further properties of the derivation pass                               *)
(***************************************************************************)
\* the start of the latest record before i among those in S, 0 when there
\* is none
StartOfLatest(S, i) ==
    LET before == {j \in S : j < i}
    IN  IF before = {} THEN Num(0)
        ELSE Get(records[CHOOSE j \in before : \A k \in before : k <= j], "start")

StartsNewDay(i, day_start) ==
    records[i].start_of_new_day =
        (records[i].status = "asleep"
         /\ Gt(Get(records[i], "start"),
               Plus(day_start, Num(settings.minimum_day_duration))))

BeganNewDay == {j \in DOMAIN records : records[j].start_of_new_day}

\* the records that reset day_start: those with start_of_new_day = true that
\* supply it themselves or do not supply day_number
ResetDayStart ==
    {j \in BeganNewDay : Explicit(j, "start_of_new_day") \/ ~Explicit(j, "day_number")}

\* C18 as stated: a record that does not supply start_of_new_day gets true
\* iff it is asleep and its start > day_start + minimum_day_duration,
\* day_start being 0 or the start of the latest earlier record with
\* start_of_new_day = true.
C18_StartOfNewDay ==
    Constructed =>
        \A i \in DOMAIN records :
            ~Explicit(i, "start_of_new_day")
                => StartsNewDay(i, StartOfLatest(BeganNewDay, i))

\* C18 amended: the same, day_start being 0 or the start of the latest
\* earlier record with start_of_new_day = true that supplies
\* start_of_new_day or does not supply day_number.
C18_StartOfNewDayReset ==
    Constructed =>
        \A i \in DOMAIN records :
            ~Explicit(i, "start_of_new_day")
                => StartsNewDay(i, StartOfLatest(ResetDayStart, i))

C18_Witness ==
    /\ Constructed
    /\ \E i, j, k \in DOMAIN records :
          /\ i < j /\ j < k
          /\ \A n \in {i, j, k} :
                ~Explicit(n, "start_of_new_day") /\ ~Explicit(n, "day_number")
          /\ records[i].start_of_new_day
          /\ records[j].status = "asleep" /\ ~records[j].start_of_new_day
          /\ records[k].start_of_new_day

\* the sleeps of day d of maximal duration
LongestSleepsOfDay(d) ==
    {i \in SleepsOfDay(d) :
        \A j \in SleepsOfDay(d) : records[j].duration <= records[i].duration}

FirstOf(S) == CHOOSE i \in S : \A j \in S : i <= j

TiedDay(d) == Cardinality(LongestSleepsOfDay(d)) >= 2

\* C19 as stated: when two or more asleep records of one day_number have the
\* same maximal duration, the first of them in the record list is the one
\* with is_primary_sleep = true.
C19_FirstWinsTie ==
    Constructed =>
        \A d \in DayNumbers :
            TiedDay(d) => PrimaryOfDay(d) = {FirstOf(LongestSleepsOfDay(d))}

\* C19 amended: the same, for a day number none of whose records supplies
\* is_primary_sleep explicitly.
C19_FirstWinsTieDerived ==
    Constructed =>
        \A d \in DayNumbers :
            /\ TiedDay(d)
            /\ \A i \in DOMAIN records :
                  records[i].day_number = d => ~Explicit(i, "is_primary_sleep")
            => PrimaryOfDay(d) = {FirstOf(LongestSleepsOfDay(d))}

C19_Witness ==
    /\ Constructed
    /\ \A i \in DOMAIN records : ~Explicit(i, "is_primary_sleep")
    /\ \E d \in DayNumbers :
          /\ TiedDay(d)
          /\ \E i \in SleepsOfDay(d) :
                i < FirstOf(LongestSleepsOfDay(d))
                /\ records[i].duration < records[FirstOf(LongestSleepsOfDay(d))].duration
          /\ PrimaryOfDay(d) = {FirstOf(LongestSleepsOfDay(d))}

(***************************************************************************)
(* Properties of the field clean-up                                        *)
(***************************************************************************)
IsFinite(value) == value[1] = "number"

\* C20: after the clean-up a start or end that is not a finite number is
\* gone from the record, and a record that had no duration has the duration
\* end - start when both are numbers and none otherwise.
C20_InvalidTimestampsRemoved ==
    pc = "cleaned" =>
        LET r == records[1]
        IN  /\ \A key \in DOMAIN r \cap {"start", "end"} : IsFinite(r[key])
            /\ "duration" \notin DOMAIN input[1] =>
                  IF {"start", "end"} \subseteq DOMAIN r
                  THEN "duration" \in DOMAIN r
                       /\ r.duration = <<"number", r.end[2] - r.start[2]>>
                  ELSE "duration" \notin DOMAIN r

(***************************************************************************)
(* Properties of the circular rolling average                              *)
(***************************************************************************)
Window(pairs, i) == DefinedAt(pairs, (IF i - 13 > 0 THEN i - 13 ELSE 0), i)

\* the window values in the lowest and in the highest quarter of the period
LowGroup(pairs, i, P) == {j \in Window(pairs, i) : pairs[j + 1][1][1] * 4 < P}

HighGroup(pairs, i, P) == {j \in Window(pairs, i) : pairs[j + 1][1][1] * 4 > 3 * P}

Correction(pairs, i, P) ==
    LET low == Cardinality(LowGroup(pairs, i, P))
        high == Cardinality(HighGroup(pairs, i, P))
    IN  IF low < high THEN low * P ELSE 0 - high * P

CircularWindowMean(pairs, i, P) ==
    LET J == Window(pairs, i)
    IN  IF J = {} THEN result.rolling_average[i + 1] = NaN
        ELSE /\ IsMeanOf(result.rolling_average[i + 1],
                         SumAt(pairs, J) + Correction(pairs, i, P), Cardinality(J))
             /\ LowGroup(pairs, i, P) = {} \/ HighGroup(pairs, i, P) = {}
                   => IsMeanOf(result.rolling_average[i + 1],
                               SumAt(pairs, J), Cardinality(J))

IsShifted(y, x, half, length) ==
    LET sum == x[1] + half * x[2]
    IN  /\ y[2] > 0
        /\ IF sum < length * x[2] THEN y[1] * x[2] = sum * y[2]
           ELSE y[1] * x[2] = (sum - length * x[2]) * y[2]

LateReturned(q) ==
    /\ call.name = "summarise_schedule"
    /\ call.selected[q] = "late"
    /\ result[q] # Null

\* C22: when the late series is returned, its average, mean,
\* interquartile_mean and median are the late values + day_length/2 modulo
\* day_length, its durations, interquartile_durations and rolling_average are
\* the early series' arrays, and its standard deviations and
\* interquartile_range are those of the late values.
C22_LateSeriesShifted ==
    \A q \in {"sleep", "wake"} :
        LateReturned(q) =>
            LET early == call.early[q]
                late == call.late[q]
                half == call.day_length \div 2
            IN  /\ \A key \in {"average", "mean", "interquartile_mean"} :
                      IsShifted(result[q][key], late[key], half, call.day_length)
                /\ IsShifted(<<result[q].median, 1>>, <<late.median, 1>>,
                             half, call.day_length)
                /\ result[q].durations = early.durations
                /\ result[q].interquartile_durations = early.interquartile_durations
                /\ result[q].rolling_average = early.rolling_average
                /\ result[q].standard_deviation = late.standard_deviation
                /\ result[q].interquartile_standard_deviation
                      = late.interquartile_standard_deviation
                /\ result[q].interquartile_range = late.interquartile_range

C22_Witness ==
    /\ LateReturned("sleep")
    /\ Len(result.sleep.rolling_average) >= 15
    /\ result.sleep.rolling_average[15] # NaN
    /\ result.sleep.rolling_average # call.late.sleep.rolling_average
    /\ result.sleep.durations # call.late.sleep.durations
    /\ result.sleep.average # call.late.sleep.average
    /\ result.sleep.standard_deviation[1] > 0
    /\ call.late.sleep.average[1] + 12 * call.late.sleep.average[2]
          >= 24 * call.late.sleep.average[2]

(***************************************************************************)
(* Properties of the activities of a record                                *)
(***************************************************************************)
HasStart(i) == Truthy(Get(records[i], "start"))

HasEnd(i) == Truthy(Get(records[i], "end"))

\* record i has one activity, of this type, whose time is total/2
SingleActivity(i, type, total) ==
    /\ Cardinality(ActivitiesOf(i)) = 1
    /\ \A kn \in ActivitiesOf(i) :
          /\ ActivityAt(kn).type = type
          /\ ActivityAt(kn).time # NaN
          /\ ActivityAt(kn).time[1] * 2 = total * ActivityAt(kn).time[2]

\* the number of grid days from the day record i starts in to the day it
\* ends in
DaysSpanned(i) == DayOfEnd(records[i].end) - DayOfStart(records[i].start) + 1

OpenEnded(i) ==
    /\ ~HasStart(i) /\ ~HasEnd(i) => ActivitiesOf(i) = {}
    /\ HasStart(i) /\ ~HasEnd(i)
          => SingleActivity(i, "start-unknown", 2 * records[i].start)
    /\ ~HasStart(i) /\ HasEnd(i)
          => SingleActivity(i, "unknown-end", 2 * records[i].end)

InsideOneDay(i) ==
    HasStart(i) /\ HasEnd(i) /\ DaysSpanned(i) = 1
        => SingleActivity(i, "start-end", records[i].start + records[i].end)

ActivityCount(i) ==
    Cardinality(ActivitiesOf(i))
        \in {0, 1} \cup (IF HasStart(i) /\ HasEnd(i) THEN {DaysSpanned(i)} ELSE {})

\* C23: a record with neither start nor end has no activity; one with only
\* a start (only an end) has exactly one, of type start-unknown
\* (unknown-end), whose time is that endpoint; one with both endpoints inside
\* one day has exactly one, of type start-end, whose time is the midpoint;
\* and the number of activities of a record is 0, 1 or the number of days it
\* spans (the days taken on the grid of a zone without offset changes).
C23_ActivitiesOfRecord ==
    Segmented =>
        \A i \in DOMAIN records :
            /\ OpenEnded(i)
            /\ call.timezone # DstZone /\ result.days # <<>>
                  => InsideOneDay(i) /\ ActivityCount(i)

(***************************************************************************)
(* Properties of the days                                                  *)
(***************************************************************************)
\* the earliest timestamp (start, or end when there is no start) of a record
Earliest ==
    LET times == {StartOrEnd(records[i])[1] :
                     i \in {j \in DOMAIN records : Truthy(StartOrEnd(records[j]))}}
    IN  CHOOSE x \in times : \A y \in times : x <= y

\* the local time of day of an instant in the zone of the call
LocalTimeOfDay(time) == (time + ZoneOffset(time, call.timezone)) % 24

\* C24: the first day starts at the latest instant at or before the
\* earliest record timestamp whose local time of day is day_start:
\* first_day.start <= earliest timestamp < first_day.start + 24h, at the local
\* time day_start, for every day_start.
C24_FirstDayStart ==
    Segmented /\ 0 \in DOMAIN result.days =>
        /\ result.days[0].start <= Earliest
        /\ Earliest < result.days[0].start + 24
        /\ LocalTimeOfDay(result.days[0].start) = call.day_start

\* the zone changes its offset between the start and the end of the day
ContainsChange(day) ==
    ZoneOffset(day.start, call.timezone) # ZoneOffset(day.end, call.timezone)

\* C25: with day_stride = 24h in a zone that observes DST every day starts
\* at the local time day_start; a day that contains a change of offset lasts
\* 24h minus or plus the change (23 or 25 hours), every other day 24h; and
\* each day ends where the next one starts.
C25_SameLocalStart ==
    Segmented /\ call.timezone = DstZone /\ call.day_stride = 24 =>
        \A k \in DOMAIN result.days :
            LET day == result.days[k]
            IN  /\ LocalTimeOfDay(day.start) = call.day_start
                /\ day.end = day.start + day.duration
                /\ IF ContainsChange(day)
                   THEN day.duration = 24 + ZoneOffset(day.start, call.timezone)
                                          - ZoneOffset(day.end, call.timezone)
                        /\ day.duration \in {23, 25}
                   ELSE day.duration = 24
                /\ k + 1 \in DOMAIN result.days
                      => day.end = result.days[k + 1].start

(***************************************************************************)
(* Properties of the day lengths                                           *)
(***************************************************************************)
\* the records that start day d
DayStartOf(d) ==
    {i \in DOMAIN records : records[i].start_of_new_day /\ records[i].day_number = d}

\* the day numbers d >= 1 such that d and d + 1 both have a record that starts them
ConsecutiveDays ==
    {d \in DayNumbers : d >= 1 /\ DayStartOf(d) # {} /\ DayStartOf(d + 1) # {}}

NoneExplicit == \A i \in DOMAIN input : DOMAIN input[i] \cap DerivedFields = {}

DayLengths ==
    IF result = Null THEN {}
    ELSE {n \in DOMAIN result.durations : result.durations[n] # NaN}

IsDayLength(length) ==
    /\ \E d \in ConsecutiveDays :
          \E i \in DayStartOf(d), j \in DayStartOf(d + 1) :
              length = records[j].start - records[i].start
    /\ settings.minimum_day_duration < length
    /\ length <= settings.maximum_day_duration

\* C26: when no derived field is supplied and no filter is given, every
\* day length of summarise_days is the difference between the starts of the
\* records that start two consecutive day numbers d and d+1, and lies in
\* (minimum_day_duration, maximum_day_duration]; a skipped day number gives
\* no day length.
C26_DayLengthBounds ==
    call.name = "summarise_days" /\ call.filter = "none" /\ NoneExplicit =>
        /\ result = Null \/ result.kind = "statistics"
        /\ \A n \in DayLengths : IsDayLength(result.durations[n][1])
        /\ Cardinality(DayLengths) = Cardinality(ConsecutiveDays)

C26_Witness ==
    /\ call.name = "summarise_days"
    /\ call.filter = "none"
    /\ NoneExplicit
    /\ Cardinality(DayLengths) = 1
    /\ \E d \in DayNumbers :
          d >= 1 /\ DayStartOf(d) # {} /\ DayStartOf(d + 1) = {}
             /\ DayStartOf(d + 2) # {}

(***************************************************************************)
(* Properties of the interquartile slice                                   *)
(***************************************************************************)
MaxCount == 100

\* the slice indices of n values are within bounds and the slice is not empty
SliceWithinBounds(n) ==
    /\ 0 <= RoundQuarter(n)
    /\ RoundQuarter(n) < RoundThreeQuarters(n)
    /\ RoundThreeQuarters(n) <= n

\* x is a fraction with a positive denominator
IsNumber(x) == x # NaN /\ Len(x) = 2 /\ x[2] > 0

\* C27: for every n >= 1 defined values the slice round(0.25 n) ..
\* round(0.75 n) is within bounds and not empty, so that summarise returns
\* statistics whose interquartile_mean, interquartile_range (>= 0) and
\* interquartile_standard_deviation are defined numbers.
C27_SliceNonEmpty ==
    /\ \A n \in 1..MaxCount : SliceWithinBounds(n)
    /\ call.name = "summarise" =>
          LET n == Cardinality(AllDefined(call.pairs))
          IN  IF n = 0 THEN result = Null
              ELSE /\ result.kind = "statistics"
                   /\ Len(result.interquartile_durations) >= 1
                   /\ Len(result.interquartile_durations) <= n
                   /\ IsNumber(result.interquartile_mean)
                   /\ result.interquartile_range >= 0
                   /\ IsNumber(result.interquartile_standard_deviation)
                   /\ result.interquartile_standard_deviation[1] >= 0

C27_Witness ==
    /\ Summarised
    /\ Cardinality(AllDefined(call.pairs)) = 1
    /\ Len(call.pairs) = 3
    /\ Len(result.interquartile_durations) = 1
    /\ result.interquartile_range = 0
    /\ result.interquartile_standard_deviation = <<0, 1>>

(***************************************************************************)
(* Properties of the grid of days                                          *)
(***************************************************************************)
\* C28: in a zone without offset changes every day lasts day_stride, the
\* days with indices i and j start (i - j) * day_stride apart, every day
\* present has an activity (the indices of the days without one are gaps),
\* and no two days overlap.
C28_RegularGrid ==
    Segmented /\ call.timezone # DstZone =>
        \A i \in DOMAIN result.days :
            /\ result.days[i].duration = call.day_stride
            /\ result.days[i].end = result.days[i].start + call.day_stride
            /\ result.days[i].activities # <<>>
            /\ \A j \in DOMAIN result.days :
                  /\ result.days[i].start
                        = result.days[j].start + (i - j) * call.day_stride
                  /\ i < j => result.days[i].end <= result.days[j].start

C28_Witness ==
    /\ Segmented
    /\ call.timezone = "Etc/GMT-1"
    /\ call.day_stride = 12
    /\ \E i, j \in DOMAIN result.days :
          /\ i + 2 < j
          /\ \A k \in (i + 1)..(j - 1) : k \notin DOMAIN result.days
          /\ j + 1 \in DOMAIN result.days
          /\ result.days[j].start = result.days[i].start + (j - i) * 12

(***************************************************************************)
(* Properties of the schedule of a regular sleeper                         *)
(***************************************************************************)
\* the fraction or number x is the integer t
IsValue(x, t) == x # NaN /\ x[1] = t * Denominator(x)

\* C29: when all primary sleeps start (end) at the same local time of day
\* t, summarise_schedule reports the average, mean and median t for sleep
\* (wake), whichever series is selected.
C29_PhaseRoundTrip ==
    call.name = "summarise_schedule" =>
        \A q \in {"sleep", "wake"} :
            \A t \in 0..(call.day_length - 1) :
                TimesOfDay(KeyOf(q)) = {Num(t)} =>
                    /\ result[q] # Null
                    /\ IsValue(result[q].average, t)
                    /\ IsValue(result[q].mean, t)
                    /\ result[q].median = t

C29_Witness ==
    /\ call.name = "summarise_schedule"
    /\ call.day_length = 24
    /\ Cardinality(Qualifying) >= 15
    /\ TimesOfDay("start") = {Num(1)}
    /\ TimesOfDay("end") = {Num(9)}
    /\ call.selected.sleep = "late"
    /\ call.late.sleep.average = <<13 * Cardinality(Qualifying), Cardinality(Qualifying)>>
    /\ IsValue(result.sleep.average, 1)
    /\ result.sleep.median = 1
    /\ IsValue(result.wake.mean, 9)

(***************************************************************************)
(* Further properties of merge                                             *)
(***************************************************************************)
NoSharedKey ==
    \A i, j \in DOMAIN records :
        i # j => MergeKey(records[i]) # MergeKey(records[j])

\* the record that stands for r in the merged diary is w
RepresentedBy(r, w) ==
    \E i \in DOMAIN records :
        MergeKey(records[i]) = MergeKey(r) /\ records[i] = w

\* the last record of s with the key of r
LastWithKey(s, r) ==
    LET same == {i \in DOMAIN s : MergeKey(s[i]) = MergeKey(r)}
    IN  s[CHOOSE i \in same : \A j \in same : j <= i]

EveryKeyRepresented ==
    /\ \A i \in DOMAIN call.other :
           RepresentedBy(call.other[i], LastWithKey(call.other, call.other[i]))
    /\ \A i \in DOMAIN call.this :
           \/ \E j \in DOMAIN call.other :
                  MergeKey(call.other[j]) = MergeKey(call.this[i])
           \/ RepresentedBy(call.this[i], LastWithKey(call.this, call.this[i]))

\* every list a second merge(other) may leave is the present one
MergeAgainSame ==
    LET again == merge(records, call.other)
    IN  \A p \in SortOutcomes(again) :
            [i \in DOMAIN again |-> again[p[i]]] = records

====
